---------------------------- MODULE Spec2Model ----------------------------
(*
  Sanbot MCU bridge: the frame assembler (packet-assembler.cpp), and the
  transport manager SanbotUsbManager (usb-send.cpp): its send queue, its
  worker thread, its two Endpoint Sets and its destructor.
*)
EXTENDS Integers, Sequences, FiniteSets, TLC

(***************************************************************************)
(* Bounds of the model                                                     *)
(***************************************************************************)
\* caller threads that send concurrently
NumCallers == 2
\* messages the send queue holds at most in the model (the queue is unbounded)
MaxQueue == 2
\* messages issued in a behaviour whose callers mix all the message kinds
MaxSends == 3
\* messages issued in a behaviour whose callers repeat one message
MaxBurst == 11
MaxLen == 3                      \* longest orderedBytes drawn element by element
MaxLong == 300                   \* length of the one long orderedBytes
MaxHuge == 65534                 \* length of the orderedBytes that fills 16 bits

(***************************************************************************)
(* Program constants                                                       *)
(***************************************************************************)
VID == 1155                      \* 0x0483
PID_BOTTOM == 22336              \* 0x5740
PID_HEAD == 22337                \* 0x5741
WHAT_SEND_TO_HEAD == 1
WHAT_SEND_TO_BOTTOM == 2
WHAT_SEND_TO_POINT == 4
FailThreshold == 10              \* failCount % 10
FRAME_TYPE == 41987              \* 0xA403
FRAME_SUBTYPE == 0
FRAME_HEAD == 65445              \* 0xFFA5
SENTINEL == -1
LIBUSB_TRANSFER_TYPE_MASK == 3
LIBUSB_TRANSFER_TYPE_BULK == 2
LIBUSB_ENDPOINT_IN == 128

(***************************************************************************)
(* Frame assembler: pure functions over bytes (0..255)                     *)
(***************************************************************************)
\* static_cast<int8_t>(uint8_t)
ToInt8(u) == IF u >= 128 THEN u - 256 ELSE u
\* static_cast<uint8_t>(int8_t)
ToUint8(s) == IF s < 0 THEN s + 256 ELSE s

toBytes16BE(value) == << (value \div 256) % 256, value % 256 >>

toBytes32BE(value) ==
    << (value \div 16777216) % 256, (value \div 65536) % 256,
       (value \div 256) % 256, value % 256 >>

\* the sum of s[lo..hi]; the range is halved so that a long datas can be summed
RECURSIVE SumRange(_, _, _)
SumRange(s, lo, hi) ==
    IF lo > hi THEN 0
    ELSE IF lo = hi THEN s[lo]
    ELSE LET mid == (lo + hi) \div 2
         IN  SumRange(s, lo, mid) + SumRange(s, mid + 1, hi)

SumSeq(s) == LET t == SubSeq(s, 1, Len(s)) IN SumRange(t, 1, Len(t))

\* mutant: only orderedBytes is filtered, commandMode is always kept
buildDatasKeepMode(cmd) ==
    LET kept == SelectSeq(cmd.orderedBytes, LAMBDA sb : sb # SENTINEL)
    IN  << cmd.commandMode >> \o [i \in 1..Len(kept) |-> ToUint8(kept[i])]

\* a CommandPayload is [commandMode: 0..255, orderedBytes: Seq(-128..127)]
buildDatas(cmd) ==
    LET list == << ToInt8(cmd.commandMode) >> \o cmd.orderedBytes
        kept == SelectSeq(list, LAMBDA sb : sb # SENTINEL)
    IN  [i \in 1..Len(kept) |-> ToUint8(kept[i])]

\* mutant: content_len counts the five fixed bytes but not the checksum
computeContentLenOffByOne(ack_flg, datas) ==
    LET content_len == Len(datas) + 5
        mmnn == (Len(datas) + 1) % 65536
        fh == toBytes16BE(FRAME_HEAD)
        data_sum == fh[1] + fh[2] + ack_flg + mmnn + SumSeq(datas)
    IN  [content_len |-> content_len, mmnn |-> mmnn,
         msg_size |-> toBytes32BE(content_len), checkSum |-> data_sum % 256]

\* mutant: mmnn enters the checksum as its two bytes
computeChecksumMmnnBytes(ack_flg, datas) ==
    LET content_len == Len(datas) + 5 + 1
        mmnn == (Len(datas) + 1) % 65536
        fh == toBytes16BE(FRAME_HEAD)
        mm == toBytes16BE(mmnn)
        data_sum == fh[1] + fh[2] + ack_flg + mm[1] + mm[2] + SumSeq(datas)
    IN  [content_len |-> content_len, mmnn |-> mmnn,
         msg_size |-> toBytes32BE(content_len), checkSum |-> data_sum % 256]

computeUsbFieldsAndChecksum(ack_flg, datas) ==
    \* content_len and data_sum are uint32_t: no payload of the model wraps them
    LET content_len == Len(datas) + 5 + 1
        mmnn == (Len(datas) + 1) % 65536
        fh == toBytes16BE(FRAME_HEAD)
        data_sum == fh[1] + fh[2] + ack_flg + mmnn + SumSeq(datas)
    IN  [content_len |-> content_len, mmnn |-> mmnn,
         msg_size |-> toBytes32BE(content_len), checkSum |-> data_sum % 256]

\* mutant: six reserved bytes instead of seven
buildUsbFrameSixReserved(ack_flg, datas) ==
    LET computed == computeUsbFieldsAndChecksum(ack_flg, datas)
    IN  toBytes16BE(FRAME_TYPE) \o toBytes16BE(FRAME_SUBTYPE) \o computed.msg_size
        \o << ack_flg >> \o << 0, 0, 0, 0, 0, 0 >>
        \o toBytes16BE(FRAME_HEAD) \o << ack_flg >> \o toBytes16BE(computed.mmnn)
        \o datas \o << computed.checkSum >>

\* mutant: the second ack_flg is written before frame_head
buildUsbFrameAckBeforeHead(ack_flg, datas) ==
    LET computed == computeUsbFieldsAndChecksum(ack_flg, datas)
    IN  toBytes16BE(FRAME_TYPE) \o toBytes16BE(FRAME_SUBTYPE) \o computed.msg_size
        \o << ack_flg >> \o << 0, 0, 0, 0, 0, 0, 0 >>
        \o << ack_flg >> \o toBytes16BE(FRAME_HEAD) \o toBytes16BE(computed.mmnn)
        \o datas \o << computed.checkSum >>

buildUsbFrame(ack_flg, datas) ==
    LET computed == computeUsbFieldsAndChecksum(ack_flg, datas)
    IN  toBytes16BE(FRAME_TYPE) \o toBytes16BE(FRAME_SUBTYPE) \o computed.msg_size
        \o << ack_flg >> \o << 0, 0, 0, 0, 0, 0, 0 >>
        \o toBytes16BE(FRAME_HEAD) \o << ack_flg >> \o toBytes16BE(computed.mmnn)
        \o datas \o << computed.checkSum >>

appendPointTagForRouting(usbFrame, point_tag) == Append(usbFrame, point_tag)

assembleUsbFrameFromCommand(cmd, ack_flg) == buildUsbFrame(ack_flg, buildDatas(cmd))

assembleRoutedBuffer(cmd, ack_flg, point_tag) ==
    appendPointTagForRouting(assembleUsbFrameFromCommand(cmd, ack_flg), point_tag)

(***************************************************************************)
(* Control catalogue: one builder per action, each returning the routed    *)
(* buffer (frame and tag)                                                  *)
(***************************************************************************)
\* value & 0xFF and (value >> 8) & 0xFF of a uint16_t
Lsb(value) == value % 256
Msb(value) == (value \div 256) % 256

\* the vector<int8_t> initialiser: static_cast<int8_t> of every element
Ordered(bytes) == [i \in 1..Len(bytes) |-> ToInt8(bytes[i])]

assembleCommand(commandMode, ordered, point_tag) ==
    assembleRoutedBuffer([commandMode |-> commandMode, orderedBytes |-> ordered],
                         1, point_tag)

buildWheelNoAngle(action, speed, duration, durationMode) ==
    assembleCommand(1, Ordered(<< 1, action, speed, Lsb(duration), Msb(duration),
                                  durationMode >>), 2)

buildWheelRelativeAngle(action, speed, angle) ==
    assembleCommand(1, Ordered(<< 2, action, speed, Lsb(angle), Msb(angle) >>), 2)

\* mutant: the high byte of distance before the low byte
buildWheelDistanceHighFirst(action, speed, distance) ==
    assembleCommand(1, Ordered(<< 17, action, speed, Msb(distance), Lsb(distance) >>), 2)

buildWheelDistance(action, speed, distance) ==
    assembleCommand(1, Ordered(<< 17, action, speed, Lsb(distance), Msb(distance) >>), 2)

\* mutant: the timed action under the sub-mode of the distance action
buildWheelTimedAsDistance(action, time, degree) ==
    assembleCommand(1, Ordered(<< 17, action, Lsb(time), Msb(time), degree >>), 2)

buildWheelTimed(action, time, degree) ==
    assembleCommand(1, Ordered(<< 16, action, Lsb(time), Msb(time), degree >>), 2)

\* mutant: an arm command tagged for the head
buildArmNoAngleHeadTag(part, speed, action) ==
    assembleCommand(3, Ordered(<< 1, part, speed, action >>), 1)

buildArmNoAngle(part, speed, action) ==
    assembleCommand(3, Ordered(<< 1, part, speed, action >>), 2)

buildArmRelativeAngle(part, speed, action, angle) ==
    assembleCommand(3, Ordered(<< 2, part, speed, action, Lsb(angle), Msb(angle) >>), 2)

buildArmAbsoluteAngle(part, speed, angle) ==
    assembleCommand(3, Ordered(<< 3, part, speed, 2, Lsb(angle), Msb(angle) >>), 2)

buildHeadNoAngle(action, speed) ==
    assembleCommand(2, Ordered(<< 1, action, speed >>), 1)

buildHeadRelativeAngle(action, angle) ==
    assembleCommand(2, Ordered(<< 2, action, 0, Lsb(angle), Msb(angle) >>), 1)

buildHeadAbsoluteAngle(action, angle) ==
    assembleCommand(2, Ordered(<< 3, action, 0, Lsb(angle), Msb(angle) >>), 1)

buildHeadLocateAbsolute(action, hAngle, vAngle) ==
    assembleCommand(2, Ordered(<< 33, action, Lsb(hAngle), Msb(hAngle),
                                  Lsb(vAngle), Msb(vAngle) >>), 1)

buildHeadLocateRelative(action, hAngle, vAngle, hDirection, vDirection) ==
    assembleCommand(2, Ordered(<< 34, action, hDirection, hAngle, vDirection,
                                  vAngle >>), 1)

\* mutant: centre without the lock action
buildHeadCentreLockNoAction == assembleCommand(2, Ordered(<< 32, 0 >>), 1)

buildHeadCentreLock == assembleCommand(2, Ordered(<< 32, 1 >>), 1)

(***************************************************************************)
(* test-mcu.cpp: its own copy of the assembler, and buildHandNudge         *)
(***************************************************************************)
testMcu_toBytes16BE(value) == << (value \div 256) % 256, value % 256 >>

testMcu_toBytes32BE(value) ==
    << (value \div 16777216) % 256, (value \div 65536) % 256,
       (value \div 256) % 256, value % 256 >>

testMcu_buildDatas(commandMode, orderedBytes) ==
    LET list == << ToInt8(commandMode) >> \o orderedBytes
        kept == SelectSeq(list, LAMBDA b : b # -1)
    IN  [i \in 1..Len(kept) |-> ToUint8(kept[i])]

testMcu_buildUsbFrame(datas, ack) ==
    LET type == 41987
        subtype == 0
        frame_head == 65445
        unuse == << 0, 0, 0, 0, 0, 0, 0 >>
        content_len == Len(datas) + 5 + 1
        mmnn == (Len(datas) + 1) % 65536
        msg_size == testMcu_toBytes32BE(content_len)
        fh == testMcu_toBytes16BE(frame_head)
        data_sum == fh[1] + fh[2] + ack + mmnn + SumSeq(datas)
        checksum == data_sum % 256
    IN  testMcu_toBytes16BE(type) \o testMcu_toBytes16BE(subtype) \o msg_size
        \o << ack >> \o unuse \o fh \o << ack >> \o testMcu_toBytes16BE(mmnn)
        \o datas \o << checksum >>

appendPointTag(frame, point_tag) == Append(frame, point_tag)

\* mutant: speed and direction change places in the payload
buildHandNudgeSwapped(whichHand, direction, angle, speed) ==
    LET ordered == Ordered(<< 2, whichHand, direction, speed, Lsb(angle), Msb(angle) >>)
    IN  appendPointTag(testMcu_buildUsbFrame(testMcu_buildDatas(3, ordered), 1), 2)

buildHandNudge(whichHand, direction, angle, speed) ==
    LET ordered == Ordered(<< 2, whichHand, speed, direction, Lsb(angle), Msb(angle) >>)
    IN  appendPointTag(testMcu_buildUsbFrame(testMcu_buildDatas(3, ordered), 1), 2)

\* the command dispatch of main: the builder named, applied to its arguments
Catalogue(call) ==
    LET a == call.args IN
    CASE call.builder = "wheel-no-angle" -> buildWheelNoAngle(a[1], a[2], a[3], a[4])
      [] call.builder = "wheel-relative" -> buildWheelRelativeAngle(a[1], a[2], a[3])
      [] call.builder = "wheel-distance" -> buildWheelDistance(a[1], a[2], a[3])
      [] call.builder = "wheel-timed" -> buildWheelTimed(a[1], a[2], a[3])
      [] call.builder = "arm-no-angle" -> buildArmNoAngle(a[1], a[2], a[3])
      [] call.builder = "arm-relative" -> buildArmRelativeAngle(a[1], a[2], a[3], a[4])
      [] call.builder = "arm-absolute" -> buildArmAbsoluteAngle(a[1], a[2], a[3])
      [] call.builder = "head-no-angle" -> buildHeadNoAngle(a[1], a[2])
      [] call.builder = "head-relative" -> buildHeadRelativeAngle(a[1], a[2])
      [] call.builder = "head-absolute" -> buildHeadAbsoluteAngle(a[1], a[2])
      [] call.builder = "head-locate-absolute" -> buildHeadLocateAbsolute(a[1], a[2], a[3])
      [] call.builder = "head-locate-relative" ->
             buildHeadLocateRelative(a[1], a[2], a[3], a[4], a[5])
      [] call.builder = "head-centre" -> buildHeadCentreLock

\* the parameter kinds of each builder, in order: "b" a uint8_t, "w" a uint16_t
Signature ==
    [ builder \in { "wheel-no-angle", "wheel-relative", "wheel-distance", "wheel-timed",
                    "arm-no-angle", "arm-relative", "arm-absolute", "head-no-angle",
                    "head-relative", "head-absolute", "head-locate-absolute",
                    "head-locate-relative", "head-centre" } |->
        CASE builder = "wheel-no-angle" -> << "b", "b", "w", "b" >>
          [] builder = "wheel-relative" -> << "b", "b", "w" >>
          [] builder = "wheel-distance" -> << "b", "b", "w" >>
          [] builder = "wheel-timed" -> << "b", "w", "b" >>
          [] builder = "arm-no-angle" -> << "b", "b", "b" >>
          [] builder = "arm-relative" -> << "b", "b", "b", "w" >>
          [] builder = "arm-absolute" -> << "b", "b", "w" >>
          [] builder = "head-no-angle" -> << "b", "b" >>
          [] builder = "head-relative" -> << "b", "w" >>
          [] builder = "head-absolute" -> << "b", "w" >>
          [] builder = "head-locate-absolute" -> << "b", "w", "w" >>
          [] builder = "head-locate-relative" -> << "b", "b", "b", "b", "b" >>
          [] builder = "head-centre" -> << >> ]

(***************************************************************************)
(* The USB bus as libusb shows it: what libusb_get_device_list returns     *)
(***************************************************************************)
BulkOut(addr) == [bmAttributes |-> LIBUSB_TRANSFER_TYPE_BULK, bEndpointAddress |-> addr]
BulkIn(addr) == [bmAttributes |-> LIBUSB_TRANSFER_TYPE_BULK,
                 bEndpointAddress |-> LIBUSB_ENDPOINT_IN + addr]
InterruptIn(addr) == [bmAttributes |-> 3, bEndpointAddress |-> LIBUSB_ENDPOINT_IN + addr]

Altsetting(num, eps, claimOk) ==
    [bInterfaceNumber |-> num, endpoints |-> eps, claimOk |-> claimOk]

Device(vid, pid, descOk, openOk, cfgOk, ifaces) ==
    [idVendor |-> vid, idProduct |-> pid, descOk |-> descOk, openOk |-> openOk,
     cfgOk |-> cfgOk, interface |-> ifaces]

\* head board: interface 0 has no bulk endpoint, interface 1 has a bulk pair
HeadBoard ==
    Device(VID, PID_HEAD, TRUE, TRUE, TRUE,
           << << Altsetting(0, << InterruptIn(3) >>, TRUE) >>,
              << Altsetting(1, << BulkIn(1), BulkOut(1) >>, TRUE) >> >>)
\* bottom board: one interface, bulk OUT only
BottomBoard ==
    Device(VID, PID_BOTTOM, TRUE, TRUE, TRUE,
           << << Altsetting(0, << BulkOut(2) >>, TRUE) >> >>)
\* a head board whose only bulk interface another process has claimed
BusyHeadBoard ==
    Device(VID, PID_HEAD, TRUE, TRUE, TRUE,
           << << Altsetting(1, << BulkIn(1), BulkOut(1) >>, FALSE) >> >>)
\* a bottom board without any bulk OUT endpoint
NoBulkBottomBoard ==
    Device(VID, PID_BOTTOM, TRUE, TRUE, TRUE,
           << << Altsetting(0, << InterruptIn(3), BulkIn(2) >>, TRUE) >> >>)
\* a bottom board whose configuration descriptor cannot be read
NoConfigBottomBoard == Device(VID, PID_BOTTOM, TRUE, TRUE, FALSE, << >>)
\* a head board that cannot be opened (permissions)
LockedHeadBoard == Device(VID, PID_HEAD, TRUE, FALSE, TRUE, << >>)
OtherDevice == Device(7531, 2, TRUE, TRUE, TRUE, << >>)

\* results of libusb_get_device_list: a negative count, or a list
Enumerations ==
    { [cnt |-> -1, list |-> << >>],
      [cnt |-> 0, list |-> << >>],
      [cnt |-> 3, list |-> << OtherDevice, HeadBoard, BottomBoard >>],
      [cnt |-> 3, list |-> << BusyHeadBoard, NoBulkBottomBoard, OtherDevice >>],
      [cnt |-> 4, list |-> << LockedHeadBoard, NoConfigBottomBoard, BottomBoard, HeadBoard >>] }

\* results of libusb_bulk_transfer on a buffer of n bytes: [r, transferred]
TransferResults(n) ==
    { [r |-> 0, transferred |-> n],
      [r |-> 0, transferred |-> 0],
      [r |-> -1, transferred |-> 0],
      [r |-> -7, transferred |-> 1] }

(***************************************************************************)
(* Endpoint Sets.  An endpoint operation works on st = [dev, ev]: dev the  *)
(* EndpointSet, ev the libusb calls made so far in the current handling    *)
(* (opens: libusb_open that succeeded, closes: libusb_close of the handle   *)
(* the EndpointSet records, discards: libusb_close of a handle openDevice   *)
(* opened and did not keep, resolves: runs of openDevice, cycles:           *)
(* closeDevice-openDevice pairs run because failCount reached a multiple    *)
(* of 10).                                                                  *)
(***************************************************************************)
ClosedEndpoint == [handle |-> 0, outEp |-> 0, inEp |-> 0, iface |-> -1, failCount |-> 0]
NoEvents == [opens |-> 0, closes |-> 0, discards |-> 0, resolves |-> 0, cycles |-> 0]

\* mutant: only the handle is cleared
closeDeviceKeepsAddress(st) ==
    [dev |-> [st.dev EXCEPT !.handle = 0, !.failCount = 0],
     ev |-> [st.ev EXCEPT !.closes = @ + (IF st.dev.handle # 0 THEN 1 ELSE 0)]]

closeDevice(st) ==
    [dev |-> ClosedEndpoint,
     ev |-> [st.ev EXCEPT !.closes = @ + (IF st.dev.handle # 0 THEN 1 ELSE 0)]]

\* the endpoint scan of one altsetting: the last bulk endpoint of each direction
RECURSIVE ScanEndpoints(_, _)
ScanEndpoints(eps, acc) ==
    IF eps = << >> THEN acc
    ELSE LET ep == Head(eps)
             isBulk == (ep.bmAttributes % (LIBUSB_TRANSFER_TYPE_MASK + 1))
                           = LIBUSB_TRANSFER_TYPE_BULK
             isIn == (ep.bEndpointAddress \div LIBUSB_ENDPOINT_IN) % 2 = 1
             acc2 == IF ~isBulk THEN acc
                     ELSE IF isIn THEN [acc EXCEPT !.inEp = ep.bEndpointAddress]
                     ELSE [acc EXCEPT !.outEp = ep.bEndpointAddress]
         IN  ScanEndpoints(Tail(eps), acc2)

\* all altsettings in the order the two loops visit them
RECURSIVE AltsInOrder(_)
AltsInOrder(ifaces) ==
    IF ifaces = << >> THEN << >> ELSE Head(ifaces) \o AltsInOrder(Tail(ifaces))

\* the first altsetting with a bulk OUT endpoint whose interface can be claimed
RECURSIVE FindBulkInterface(_)
FindBulkInterface(alts) ==
    IF alts = << >> THEN [found |-> FALSE]
    ELSE LET ifdesc == Head(alts)
             eps == ScanEndpoints(ifdesc.endpoints, [outEp |-> 0, inEp |-> 0])
         IN  IF eps.outEp # 0 /\ ifdesc.claimOk
             THEN [found |-> TRUE, outEp |-> eps.outEp, inEp |-> eps.inEp,
                   iface |-> ifdesc.bInterfaceNumber]
             ELSE FindBulkInterface(Tail(alts))

\* mutant: a handle without a usable interface is not closed
RECURSIVE OpenFromLeaky(_, _, _, _)
OpenFromLeaky(st, pid, list, i) ==
    IF i > Len(list) THEN st
    ELSE LET device == list[i] IN
         IF ~device.descOk THEN OpenFromLeaky(st, pid, list, i + 1)
         ELSE IF device.idVendor # VID \/ device.idProduct # pid
              THEN OpenFromLeaky(st, pid, list, i + 1)
         ELSE IF ~device.openOk THEN OpenFromLeaky(st, pid, list, i + 1)
         ELSE LET opened == [st EXCEPT !.ev.opens = @ + 1] IN
              IF ~device.cfgOk
              THEN OpenFromLeaky([opened EXCEPT !.ev.discards = @ + 1], pid, list, i + 1)
              ELSE LET f == FindBulkInterface(AltsInOrder(device.interface)) IN
                   IF f.found
                   THEN [opened EXCEPT !.dev = [handle |-> 1, outEp |-> f.outEp,
                                                inEp |-> f.inEp, iface |-> f.iface,
                                                failCount |-> 0]]
                   ELSE OpenFromLeaky(opened, pid, list, i + 1)

\* the device loop of openDevice from list position i on
RECURSIVE OpenFrom(_, _, _, _)
OpenFrom(st, pid, list, i) ==
    IF i > Len(list) THEN st
    ELSE LET device == list[i] IN
         IF ~device.descOk THEN OpenFrom(st, pid, list, i + 1)
         ELSE IF device.idVendor # VID \/ device.idProduct # pid
              THEN OpenFrom(st, pid, list, i + 1)
         ELSE IF ~device.openOk THEN OpenFrom(st, pid, list, i + 1)
         ELSE LET opened == [st EXCEPT !.ev.opens = @ + 1] IN
              IF ~device.cfgOk
              THEN OpenFrom([opened EXCEPT !.ev.discards = @ + 1], pid, list, i + 1)
              ELSE LET f == FindBulkInterface(AltsInOrder(device.interface)) IN
                   IF f.found
                   THEN [opened EXCEPT !.dev = [handle |-> 1, outEp |-> f.outEp,
                                                inEp |-> f.inEp, iface |-> f.iface,
                                                failCount |-> 0]]
                   ELSE OpenFrom([opened EXCEPT !.ev.discards = @ + 1], pid, list, i + 1)

\* mutant: openDevice without its closeDevice call when no handle is open, so
\* that failCount is kept across a resolution that finds nothing
openDeviceKeepCount(st, pid, enum) ==
    LET s1 == IF st.dev.handle # 0 THEN closeDevice(st) ELSE st
        s2 == [s1 EXCEPT !.ev.resolves = @ + 1]
    IN  IF enum.cnt < 0 THEN s2 ELSE OpenFrom(s2, pid, enum.list, 1)

openDevice(st, pid, enum) ==
    LET s1 == closeDevice(st)
        s2 == [s1 EXCEPT !.ev.resolves = @ + 1]
    IN  IF enum.cnt < 0 THEN s2 ELSE OpenFrom(s2, pid, enum.list, 1)

NotOpen(dev) == dev.handle = 0 \/ dev.outEp = 0

\* the enumerations a step chooses from: one when the step runs no resolution
NoDevices == [cnt |-> 0, list |-> << >>]
EnumerationsIf(resolves) == IF resolves THEN Enumerations ELSE {NoDevices}

\* mutant: the threshold is tested on the counter before its increment
CountFailureBeforeIncrement(st, pid, enum) ==
    LET s1 == [st EXCEPT !.dev.failCount = @ + 1]
    IN  IF st.dev.failCount % FailThreshold = 0
        THEN openDevice(closeDevice([s1 EXCEPT !.ev.cycles = @ + 1]), pid, enum)
        ELSE s1

\* mutant: every failure reconnects
CountFailureAlways(st, pid, enum) ==
    LET s1 == [st EXCEPT !.dev.failCount = @ + 1]
    IN  openDevice(closeDevice([s1 EXCEPT !.ev.cycles = @ + 1]), pid, enum)

\* mutant: failures are counted and never lead to a reconnect
CountFailureNoReconnect(st, pid, enum) == [st EXCEPT !.dev.failCount = @ + 1]

\* failCount++ and the reconnect at every 10th failure
CountFailure(st, pid, enum) ==
    LET s1 == [st EXCEPT !.dev.failCount = @ + 1]
    IN  IF s1.dev.failCount % FailThreshold = 0
        THEN openDevice(closeDevice([s1 EXCEPT !.ev.cycles = @ + 1]), pid, enum)
        ELSE s1

\* mutant: a send that had to open the device returns without the transfer
sendBufferToBeginOpenOnly(st, pid, buf, enum, enum2) ==
    IF buf = << >> THEN [st |-> st, submit |-> FALSE, result |-> "empty"]
    ELSE LET s1 == IF NotOpen(st.dev) THEN openDevice(st, pid, enum) ELSE st
         IN  IF NotOpen(s1.dev)
             THEN [st |-> CountFailure(s1, pid, enum2), submit |-> FALSE,
                   result |-> "dropped"]
             ELSE IF NotOpen(st.dev)
             THEN [st |-> s1, submit |-> FALSE, result |-> "dropped"]
             ELSE [st |-> s1, submit |-> TRUE, result |-> "submitted"]

\* mutant: an empty buffer is sent like any other
sendBufferToBeginNoEmptyCheck(st, pid, buf, enum, enum2) ==
    LET s1 == IF NotOpen(st.dev) THEN openDevice(st, pid, enum) ELSE st
    IN  IF NotOpen(s1.dev)
        THEN [st |-> CountFailure(s1, pid, enum2), submit |-> FALSE,
              result |-> "dropped"]
        ELSE [st |-> s1, submit |-> TRUE, result |-> "submitted"]

\* sendBufferTo up to the call of libusb_bulk_transfer; submit tells whether
\* the transfer is made
sendBufferToBegin(st, pid, buf, enum, enum2) ==
    IF buf = << >> THEN [st |-> st, submit |-> FALSE, result |-> "empty"]
    ELSE LET s1 == IF NotOpen(st.dev) THEN openDevice(st, pid, enum) ELSE st
         IN  IF NotOpen(s1.dev)
             THEN [st |-> CountFailure(s1, pid, enum2), submit |-> FALSE,
                   result |-> "dropped"]
             ELSE [st |-> s1, submit |-> TRUE, result |-> "submitted"]

\* a failure counted on dev would reach the threshold
ThresholdNext(dev) == (dev.failCount + 1) % FailThreshold = 0

\* whether sendBufferToBegin reaches the openDevice of its failCount % 10 branch
SecondResolution(dev, pid, buf, enum) ==
    /\ buf # << >>
    /\ NotOpen(dev)
    /\ LET s1 == openDevice([dev |-> dev, ev |-> NoEvents], pid, enum)
       IN  NotOpen(s1.dev) /\ ThresholdNext(s1.dev)

TransferFailed(res) == res.r < 0 \/ res.transferred <= 0

\* mutant: a successful transfer leaves failCount as it is
sendBufferToEndNoReset(st, pid, res, enum) ==
    IF TransferFailed(res) THEN CountFailure(st, pid, enum) ELSE st

\* sendBufferTo after libusb_bulk_transfer returned res
sendBufferToEnd(st, pid, res, enum) ==
    IF TransferFailed(res)
    THEN CountFailure(st, pid, enum)
    ELSE [st EXCEPT !.dev.failCount = 0]

(***************************************************************************)
(* Routing                                                                 *)
(***************************************************************************)
PidOf(ep) == IF ep = "head" THEN PID_HEAD ELSE PID_BOTTOM
Call(ep, buf) == [ep |-> ep, buf |-> buf]

\* mutant: tags 0x01 and 0x02 swapped
handlePointMessageSwapped(buffers) ==
    IF Len(buffers) < 2 THEN << >>
    ELSE LET tag == buffers[Len(buffers)]
             temp == SubSeq(buffers, 1, Len(buffers) - 1)
         IN  CASE tag = 1 -> << Call("bottom", temp) >>
               [] tag = 2 -> << Call("head", temp) >>
               [] tag = 3 -> << Call("head", temp), Call("bottom", temp) >>
               [] OTHER -> << >>

\* mutant: case 0x03 misses its second send
handlePointMessageHeadOnly(buffers) ==
    IF Len(buffers) < 2 THEN << >>
    ELSE LET tag == buffers[Len(buffers)]
             temp == SubSeq(buffers, 1, Len(buffers) - 1)
         IN  CASE tag = 1 -> << Call("head", temp) >>
               [] tag = 2 -> << Call("bottom", temp) >>
               [] tag = 3 -> << Call("head", temp) >>
               [] OTHER -> << >>

\* mutant: an unknown tag falls through to the head
handlePointMessageDefaultHead(buffers) ==
    IF Len(buffers) < 2 THEN << >>
    ELSE LET tag == buffers[Len(buffers)]
             temp == SubSeq(buffers, 1, Len(buffers) - 1)
         IN  CASE tag = 1 -> << Call("head", temp) >>
               [] tag = 2 -> << Call("bottom", temp) >>
               [] tag = 3 -> << Call("head", temp), Call("bottom", temp) >>
               [] OTHER -> << Call("head", temp) >>

\* mutant: the tag is not stripped
handlePointMessageKeepTag(buffers) ==
    IF Len(buffers) < 2 THEN << >>
    ELSE LET tag == buffers[Len(buffers)]
             temp == buffers
         IN  CASE tag = 1 -> << Call("head", temp) >>
               [] tag = 2 -> << Call("bottom", temp) >>
               [] tag = 3 -> << Call("head", temp), Call("bottom", temp) >>
               [] OTHER -> << >>

\* mutant: case 0x03 sends to the bottom first
handlePointMessageBottomFirst(buffers) ==
    IF Len(buffers) < 2 THEN << >>
    ELSE LET tag == buffers[Len(buffers)]
             temp == SubSeq(buffers, 1, Len(buffers) - 1)
         IN  CASE tag = 1 -> << Call("head", temp) >>
               [] tag = 2 -> << Call("bottom", temp) >>
               [] tag = 3 -> << Call("bottom", temp), Call("head", temp) >>
               [] OTHER -> << >>

\* the sendBufferTo calls handlePointMessage makes, in order
handlePointMessage(buffers) ==
    IF Len(buffers) < 2 THEN << >>
    ELSE LET tag == buffers[Len(buffers)]
             temp == SubSeq(buffers, 1, Len(buffers) - 1)
         IN  CASE tag = 1 -> << Call("head", temp) >>
               [] tag = 2 -> << Call("bottom", temp) >>
               [] tag = 3 -> << Call("head", temp), Call("bottom", temp) >>
               [] OTHER -> << >>

\* mutant: every message is routed by its last byte
DispatchAllRouted(msg) ==
    CASE msg.what \in {WHAT_SEND_TO_HEAD, WHAT_SEND_TO_BOTTOM, WHAT_SEND_TO_POINT} ->
             handlePointMessage(msg.data)
      [] OTHER -> << >>

\* the switch of sendLoop
Dispatch(msg) ==
    CASE msg.what = WHAT_SEND_TO_HEAD -> << Call("head", msg.data) >>
      [] msg.what = WHAT_SEND_TO_BOTTOM -> << Call("bottom", msg.data) >>
      [] msg.what = WHAT_SEND_TO_POINT -> handlePointMessage(msg.data)
      [] OTHER -> << >>

(***************************************************************************)
(* What the caller threads send                                            *)
(***************************************************************************)
Callers == 1..NumCallers
\* thread identities, as the owner of the mutex and the maker of a transfer
NoThread == [kind |-> "none", id |-> 0]
WorkerThread == [kind |-> "worker", id |-> 0]
CallerThread(c) == [kind |-> "caller", id |-> c]
Endpoints == {"head", "bottom"}

\* head-centre (buildHeadCentreLock) and a payload with a sentinel in it
HeadCentreCmd == [commandMode |-> 2, orderedBytes |-> << 32, 1 >>]
SentinelCmd == [commandMode |-> 1, orderedBytes |-> << 16, SENTINEL, 4 >>]

sendToHead(frame) == [what |-> WHAT_SEND_TO_HEAD, data |-> frame]
sendToBottom(frame) == [what |-> WHAT_SEND_TO_BOTTOM, data |-> frame]
sendToPoint(routedFrameWithTag) == [what |-> WHAT_SEND_TO_POINT, data |-> routedFrameWithTag]

\* routed buffers of the catalogue's shape, with each tag value
RoutedCalls ==
    { sendToPoint(assembleRoutedBuffer(HeadCentreCmd, 1, tag)) : tag \in {1, 2, 3, 7} }
\* direct sends, the degenerate buffers, and a routed payload with a sentinel
DirectCalls ==
    { sendToHead(assembleRoutedBuffer(HeadCentreCmd, 1, 2)),
      sendToBottom(assembleUsbFrameFromCommand(HeadCentreCmd, 1)),
      sendToHead(<< >>),
      sendToPoint(<< 3 >>),
      sendToPoint(assembleRoutedBuffer(SentinelCmd, 0, 3)) }
BurstCalls ==
    { sendToPoint(assembleRoutedBuffer(HeadCentreCmd, 1, 1)),
      sendToBottom(assembleUsbFrameFromCommand(HeadCentreCmd, 1)) }

\* a workload: the calls the caller threads choose from, and how many they make
Workloads ==
    { [calls |-> RoutedCalls, sends |-> MaxSends],
      [calls |-> DirectCalls, sends |-> MaxSends] }
    \cup { [calls |-> {c}, sends |-> MaxBurst] : c \in BurstCalls }

\* the fan-out buffer, sent often enough for a reconnect cycle inside it, and
\* the buffers without a frame among sends of the fan-out buffer
FanOutCall == sendToPoint(assembleRoutedBuffer(HeadCentreCmd, 1, 3))
DegenerateCalls ==
    { sendToHead(<< >>), sendToBottom(<< >>), sendToPoint(<< >>),
      sendToPoint(<< 1 >>), sendToPoint(<< 2 >>), sendToPoint(<< 3 >>) }
EdgeWorkloads ==
    { [calls |-> {FanOutCall}, sends |-> MaxBurst],
      [calls |-> DegenerateCalls \cup {FanOutCall}, sends |-> MaxSends] }

\* send_packet of main.cpp: a few sends, each followed by waitForPendingSends
DrainWorkloads == { [calls |-> {c}, sends |-> MaxSends] : c \in BurstCalls }

(***************************************************************************)
(* State                                                                   *)
(***************************************************************************)
VARIABLES
    life,       \* the manager: "new", "failed", "alive", "notify", "join", "close", "dead"
    ctx,        \* the libusb context is initialised
    running,    \* atomic<bool> running
    msgQueue,   \* queue<Message>; a message carries the ghost id of its enqueue
    mtx,        \* the thread that holds mutex mtx, or NoThread
    wpc,        \* where the worker thread is
    cur,        \* the message the worker dequeued (msg of sendLoop)
    todo,       \* the sendBufferTo calls still to make for cur
    inflight,   \* the bulk transfers in progress
    attempts,   \* ghost: the sendBufferTo calls completed for cur
    snap,       \* ghost: both Endpoint Sets as they were when cur was dequeued
    head,       \* EndpointSet head
    bottom,     \* EndpointSet bottom
    nextId,     \* ghost: messages enqueued so far
    lastDeq,    \* ghost: id of the message dequeued last
    run,        \* ghost: per endpoint, failed transfers since the last successful one
    live,       \* ghost: per endpoint, libusb handles opened and not closed
    workload,   \* what the callers send in this behaviour
    wfp,        \* the caller inside waitForPendingSends, and where it is
    asm         \* the frame assembler: its input, then what it built from it

vars == << life, ctx, running, msgQueue, mtx, wpc, cur, todo, inflight, attempts, snap,
           head, bottom, nextId, lastDeq, run, live, workload, wfp, asm >>

NoMsg == [what |-> 0, data |-> << >>, id |-> 0]
NoSnap == [head |-> ClosedEndpoint, bottom |-> ClosedEndpoint]
Dev(ep) == IF ep = "head" THEN head ELSE bottom
\* the assembler is not in use
NoAsm == [stage |-> "none"]
\* no thread is inside waitForPendingSends
NoWait == [c |-> 0, pc |-> "none", upto |-> 0, deq |-> 0, left |-> 0, slept |-> FALSE]

\* the state after the member initialisers, for the workloads W and the
\* assembler inputs A
InitOf(W, A) ==
    /\ life = "new"
    /\ ctx = FALSE
    /\ running = FALSE
    /\ msgQueue = << >>
    /\ mtx = NoThread
    /\ wpc = "none"
    /\ cur = NoMsg
    /\ todo = << >>
    /\ inflight = {}
    /\ attempts = << >>
    /\ snap = NoSnap
    /\ head = ClosedEndpoint
    /\ bottom = ClosedEndpoint
    /\ nextId = 0
    /\ lastDeq = 0
    /\ run = [e \in Endpoints |-> 0]
    /\ live = [e \in Endpoints |-> 0]
    /\ workload \in W
    /\ wfp = NoWait
    /\ asm \in A

InitWith(W) == InitOf(W, {NoAsm})

Init == InitWith(Workloads)

(***************************************************************************)
(* Constructor                                                             *)
(***************************************************************************)
\* mutant: the worker is started before the result of libusb_init is tested
ConstructStartsWorkerFirst(initOk) ==
    /\ life = "new"
    /\ ctx' = initOk
    /\ running' = TRUE
    /\ wpc' = "loop"
    /\ life' = IF initOk THEN "alive" ELSE "failed"
    /\ UNCHANGED << msgQueue, mtx, cur, todo, inflight, attempts, snap, head, bottom,
                    nextId, lastDeq, run, live, workload, wfp, asm >>

\* mutant: the constructor opens the head board
ConstructOpensDevices(initOk) ==
    /\ life = "new"
    /\ IF initOk
       THEN /\ ctx' = TRUE
            /\ running' = TRUE
            /\ wpc' = "loop"
            /\ life' = "alive"
            /\ head' = [handle |-> 1, outEp |-> 1, inEp |-> 129, iface |-> 1,
                        failCount |-> 0]
            /\ live' = [live EXCEPT !["head"] = 1]
       ELSE /\ life' = "failed"
            /\ UNCHANGED << ctx, running, wpc, head, live >>
    /\ UNCHANGED << msgQueue, mtx, cur, todo, inflight, attempts, snap, bottom,
                    nextId, lastDeq, run, workload, wfp, asm >>

\* SanbotUsbManager(): libusb_init, then running = true and the worker starts
Construct(initOk) ==
    /\ life = "new"
    /\ IF initOk
       THEN /\ ctx' = TRUE
            /\ running' = TRUE
            /\ wpc' = "loop"
            /\ life' = "alive"
       ELSE /\ life' = "failed"
            /\ UNCHANGED << ctx, running, wpc >>
    /\ UNCHANGED << msgQueue, mtx, cur, todo, inflight, attempts, snap, head, bottom,
                    nextId, lastDeq, run, live, workload, wfp, asm >>

(***************************************************************************)
(* Caller threads: sendToHead, sendToBottom, sendToPoint                   *)
(***************************************************************************)
\* mutant: a notification that reaches no waiter
NotifiedLost(pc) == pc

\* cv.notify_one / cv.notify_all: the worker is the only thread that waits on cv
Notified(pc) == IF pc = "wait" THEN "wake" ELSE pc

\* mutant: the send operation writes to the head device itself
CallerTransfersInline(c, call) ==
    { [by |-> CallerThread(c), msg |-> 0, ep |-> "head", buf |-> call.data,
       before |-> ClosedEndpoint, ev |-> NoEvents] }

\* the bulk transfers a send operation makes itself: none, it only enqueues
CallerTransfers(c, call) == {}

\* enqueueMessage: lock_guard, push, notify_one
enqueueMessage(c, call) ==
    /\ mtx = NoThread
    /\ mtx' = CallerThread(c)
    /\ msgQueue' = Append(msgQueue, [what |-> call.what, data |-> call.data,
                                     id |-> nextId + 1])
    /\ nextId' = nextId + 1
    /\ wpc' = Notified(wpc)

CallerSend(c, call) ==
    /\ life = "alive"
    /\ wfp.c # c
    /\ nextId < workload.sends
    /\ Len(msgQueue) < MaxQueue
    /\ enqueueMessage(c, call)
    /\ inflight' = inflight \cup CallerTransfers(c, call)
    /\ UNCHANGED << life, ctx, running, cur, todo, attempts, snap, head, bottom,
                    lastDeq, run, live, workload, wfp, asm >>

\* the lock_guard's destructor: the send operation returns
CallerReturn(c) ==
    /\ mtx = CallerThread(c)
    /\ mtx' = NoThread
    /\ inflight' = { t \in inflight : t.by # CallerThread(c) }
    /\ UNCHANGED << life, ctx, running, msgQueue, wpc, cur, todo, attempts, snap, head,
                    bottom, nextId, lastDeq, run, live, workload, wfp, asm >>

(***************************************************************************)
(* The worker thread: sendLoop                                             *)
(***************************************************************************)
\* mutant: the newest message is taken
frontNewest(q) == q[Len(q)]

\* notifyIdle: queueEmptyCv.notify_all, called by the worker when its pop left
\* the queue empty
notifyIdle(w) == IF w.pc = "wait" THEN [w EXCEPT !.pc = "wake"] ELSE w

\* mutant: the message is left on the queue
popKeep(q) == q

\* msgQueue.front() and msgQueue.pop()
front(q) == q[1]
pop(q) == Tail(q)

SetDev(ep, d) ==
    /\ head' = IF ep = "head" THEN d ELSE head
    /\ bottom' = IF ep = "bottom" THEN d ELSE bottom

\* the ghost count of open libusb handles after the libusb calls ev on ep
Account(ep, ev) == [live EXCEPT ![ep] = @ + ev.opens - ev.closes - ev.discards]

\* while (running)
WorkerLoopTest ==
    /\ wpc = "loop"
    /\ wpc' = IF running THEN "lock" ELSE "exit"
    /\ UNCHANGED << life, ctx, running, msgQueue, mtx, cur, todo, inflight, attempts, snap,
                    head, bottom, nextId, lastDeq, run, live, workload, wfp, asm >>

\* unique_lock<mutex> lock(mtx), and the re-lock of a notified cv.wait
WorkerLock ==
    /\ wpc \in {"lock", "wake"}
    /\ mtx = NoThread
    /\ mtx' = WorkerThread
    /\ wpc' = "pred"
    /\ UNCHANGED << life, ctx, running, msgQueue, cur, todo, inflight, attempts, snap,
                    head, bottom, nextId, lastDeq, run, live, workload, wfp, asm >>

\* the predicate of cv.wait, evaluated with the mutex held
WaitPredicate == msgQueue # << >> \/ ~running

WorkerPred ==
    /\ wpc = "pred"
    /\ wpc' = IF WaitPredicate THEN "check" ELSE "block"
    /\ UNCHANGED << life, ctx, running, msgQueue, mtx, cur, todo, inflight, attempts, snap,
                    head, bottom, nextId, lastDeq, run, live, workload, wfp, asm >>

\* the predicate was false: cv.wait releases the mutex and suspends the worker
WorkerBlock ==
    /\ wpc = "block"
    /\ mtx' = NoThread
    /\ wpc' = "wait"
    /\ UNCHANGED << life, ctx, running, msgQueue, cur, todo, inflight, attempts, snap,
                    head, bottom, nextId, lastDeq, run, live, workload, wfp, asm >>

\* if (!running) break
WorkerCheck ==
    /\ wpc = "check"
    /\ IF ~running
       THEN /\ wpc' = "exit"
            /\ mtx' = NoThread
       ELSE /\ wpc' = "pop"
            /\ mtx' = mtx
    /\ UNCHANGED << life, ctx, running, msgQueue, cur, todo, inflight, attempts, snap,
                    head, bottom, nextId, lastDeq, run, live, workload, wfp, asm >>

\* mutant: the lock's scope covers the switch, so it is held during the sends
WorkerPopHoldsLock ==
    /\ wpc = "pop"
    /\ cur' = front(msgQueue)
    /\ msgQueue' = pop(msgQueue)
    /\ mtx' = mtx
    /\ todo' = Dispatch(front(msgQueue))
    /\ lastDeq' = front(msgQueue).id
    /\ attempts' = << >>
    /\ snap' = [head |-> head, bottom |-> bottom]
    /\ wpc' = "send"
    /\ wfp' = IF pop(msgQueue) = << >> THEN notifyIdle(wfp) ELSE wfp
    /\ UNCHANGED << life, ctx, running, inflight, head, bottom, nextId, run, live,
                    workload, asm >>

\* msg = msgQueue.front(); msgQueue.pop(); the lock goes out of scope; the switch
WorkerPop ==
    /\ wpc = "pop"
    /\ cur' = front(msgQueue)
    /\ msgQueue' = pop(msgQueue)
    /\ mtx' = NoThread
    /\ todo' = Dispatch(front(msgQueue))
    /\ lastDeq' = front(msgQueue).id
    /\ attempts' = << >>
    /\ snap' = [head |-> head, bottom |-> bottom]
    /\ wpc' = "send"
    /\ wfp' = IF pop(msgQueue) = << >> THEN notifyIdle(wfp) ELSE wfp
    /\ UNCHANGED << life, ctx, running, inflight, head, bottom, nextId, run, live,
                    workload, asm >>

\* a completed sendBufferTo call: the EndpointSet before the call, when the
\* transfer was submitted (mid) and after the call, and the libusb calls made
\* before the transfer (evBegin) and after it (evEnd)
Attempt(call, before, mid, after, result, evBegin, evEnd) ==
    [ep |-> call.ep, buf |-> call.buf, before |-> before, mid |-> mid, after |-> after,
     result |-> result, evBegin |-> evBegin, evEnd |-> evEnd]

\* the next sendBufferTo call for cur, up to libusb_bulk_transfer
WorkerSend ==
    /\ wpc = "send"
    /\ todo # << >>
    /\ LET call == Head(todo)
           before == Dev(call.ep)
       IN  \E enum \in EnumerationsIf(call.buf # << >> /\ NotOpen(before)) :
           \E enum2 \in EnumerationsIf(SecondResolution(before, PidOf(call.ep), call.buf, enum)) :
             LET b == sendBufferToBegin([dev |-> before, ev |-> NoEvents],
                                        PidOf(call.ep), call.buf, enum, enum2)
             IN  /\ SetDev(call.ep, b.st.dev)
                 /\ live' = Account(call.ep, b.st.ev)
                 /\ IF b.submit
                    THEN /\ inflight' = inflight \cup
                              { [by |-> WorkerThread, msg |-> cur.id, ep |-> call.ep,
                                 buf |-> call.buf, before |-> before, ev |-> b.st.ev] }
                         /\ wpc' = "xfer"
                         /\ UNCHANGED << todo, attempts >>
                    ELSE /\ attempts' = Append(attempts,
                                Attempt(call, before, before, b.st.dev, b.result,
                                        b.st.ev, NoEvents))
                         /\ todo' = Tail(todo)
                         /\ UNCHANGED << inflight, wpc >>
    /\ UNCHANGED << life, ctx, running, msgQueue, mtx, cur, snap, nextId, lastDeq, run,
                    workload, wfp, asm >>

\* libusb_bulk_transfer returns, and sendBufferTo counts the result
WorkerTransferReturn ==
    /\ wpc = "xfer"
    /\ \E t \in inflight :
         /\ t.by = WorkerThread
         /\ \E res \in TransferResults(Len(t.buf)) :
            \E enum \in EnumerationsIf(TransferFailed(res) /\ ThresholdNext(Dev(t.ep))) :
              LET e == sendBufferToEnd([dev |-> Dev(t.ep), ev |-> NoEvents],
                                       PidOf(t.ep), res, enum)
              IN  /\ SetDev(t.ep, e.dev)
                  /\ live' = Account(t.ep, e.ev)
                  /\ run' = [run EXCEPT ![t.ep] = IF TransferFailed(res) THEN @ + 1 ELSE 0]
                  /\ attempts' = Append(attempts,
                         Attempt(Head(todo), t.before, Dev(t.ep), e.dev,
                                 IF TransferFailed(res) THEN "failed" ELSE "ok",
                                 t.ev, e.ev))
                  /\ inflight' = inflight \ {t}
    /\ todo' = Tail(todo)
    /\ wpc' = "send"
    /\ UNCHANGED << life, ctx, running, msgQueue, mtx, cur, snap, nextId, lastDeq,
                    workload, wfp, asm >>

\* the handling of cur is over: back to the loop test
WorkerNext ==
    /\ wpc = "send"
    /\ todo = << >>
    /\ wpc' = "loop"
    /\ cur' = NoMsg
    /\ attempts' = << >>
    /\ snap' = NoSnap
    /\ UNCHANGED << life, ctx, running, msgQueue, mtx, todo, inflight, head, bottom,
                    nextId, lastDeq, run, live, workload, wfp, asm >>

(***************************************************************************)
(* waitForPendingSends (usb-send.h:37): its body is not among the sources; *)
(* it is modelled as the wait on queueEmptyCv, under mtx, for the           *)
(* predicate "the queue is empty".                                          *)
(***************************************************************************)
\* mutant: the wait has no predicate
QueueObservedEmptyAlways(q) == TRUE

\* the predicate of queueEmptyCv.wait, evaluated with the mutex held
QueueObservedEmpty(q) == q = << >>

\* the lock is taken and the predicate evaluated: the call returns (done,
\* with what it saw) or suspends on queueEmptyCv, releasing the lock
Observe(c, upto, slept) ==
    IF QueueObservedEmpty(msgQueue)
    THEN [c |-> c, pc |-> "done", upto |-> upto, deq |-> lastDeq,
          left |-> Len(msgQueue), slept |-> slept]
    ELSE [c |-> c, pc |-> "wait", upto |-> upto, deq |-> 0, left |-> 0, slept |-> TRUE]

\* caller c calls waitForPendingSends
waitForPendingSends(c) ==
    /\ life = "alive"
    /\ wfp = NoWait
    /\ mtx = NoThread
    /\ wfp' = Observe(c, nextId, FALSE)
    /\ UNCHANGED << life, ctx, running, msgQueue, mtx, wpc, cur, todo, inflight, attempts,
                    snap, head, bottom, nextId, lastDeq, run, live, workload, asm >>

\* the notified waiter re-acquires the lock and evaluates the predicate again
waitForPendingSendsWake ==
    /\ wfp.pc = "wake"
    /\ mtx = NoThread
    /\ wfp' = Observe(wfp.c, wfp.upto, TRUE)
    /\ UNCHANGED << life, ctx, running, msgQueue, mtx, wpc, cur, todo, inflight, attempts,
                    snap, head, bottom, nextId, lastDeq, run, live, workload, asm >>

\* the call returns to its caller
waitForPendingSendsReturn ==
    /\ wfp.pc = "done"
    /\ wfp' = NoWait
    /\ UNCHANGED << life, ctx, running, msgQueue, mtx, wpc, cur, todo, inflight, attempts,
                    snap, head, bottom, nextId, lastDeq, run, live, workload, asm >>

(***************************************************************************)
(* Destructor                                                              *)
(***************************************************************************)
\* running = false
DtorStop ==
    /\ life = "alive"
    /\ mtx.kind # "caller"
    /\ wfp = NoWait
    /\ running' = FALSE
    /\ life' = "notify"
    /\ UNCHANGED << ctx, msgQueue, mtx, wpc, cur, todo, inflight, attempts, snap, head,
                    bottom, nextId, lastDeq, run, live, workload, wfp, asm >>

\* cv.notify_all()
DtorNotify ==
    /\ life = "notify"
    /\ wpc' = Notified(wpc)
    /\ life' = "join"
    /\ UNCHANGED << ctx, running, msgQueue, mtx, cur, todo, inflight, attempts, snap, head,
                    bottom, nextId, lastDeq, run, live, workload, wfp, asm >>

\* mutant: the destructor does not wait for the worker
JoinReturnsEarly == TRUE

\* worker.join() returns once the worker has left sendLoop
JoinReturns == wpc = "exit"

DtorJoin ==
    /\ life = "join"
    /\ JoinReturns
    /\ life' = "close"
    /\ UNCHANGED << ctx, running, msgQueue, mtx, wpc, cur, todo, inflight, attempts, snap,
                    head, bottom, nextId, lastDeq, run, live, workload, wfp, asm >>

\* closeDevice(bottom); closeDevice(head); libusb_exit(ctx)
DtorClose ==
    /\ life = "close"
    /\ LET b == closeDevice([dev |-> bottom, ev |-> NoEvents])
           h == closeDevice([dev |-> head, ev |-> NoEvents])
       IN  /\ bottom' = b.dev
           /\ head' = h.dev
           /\ live' = [live EXCEPT !["bottom"] = @ - b.ev.closes,
                                   !["head"] = @ - h.ev.closes]
    /\ ctx' = FALSE
    /\ life' = "dead"
    /\ UNCHANGED << running, msgQueue, mtx, wpc, cur, todo, inflight, attempts, snap,
                    nextId, lastDeq, run, workload, wfp, asm >>

(***************************************************************************)
(* Specification                                                           *)
(***************************************************************************)
Next ==
    \/ \E initOk \in BOOLEAN : Construct(initOk)
    \/ \E c \in Callers : \E call \in workload.calls : CallerSend(c, call)
    \/ \E c \in Callers : CallerReturn(c)
    \/ WorkerLoopTest
    \/ WorkerLock
    \/ WorkerPred
    \/ WorkerBlock
    \/ WorkerCheck
    \/ WorkerPop
    \/ WorkerSend
    \/ WorkerTransferReturn
    \/ WorkerNext
    \/ DtorStop
    \/ DtorNotify
    \/ DtorJoin
    \/ DtorClose

Spec == Init /\ [][Next]_vars

\* the manager with the drain wait of usb-send.h
DrainNext ==
    \/ Next
    \/ \E c \in Callers : waitForPendingSends(c)
    \/ waitForPendingSendsWake
    \/ waitForPendingSendsReturn

(***************************************************************************)
(* The frame assembler and the catalogue on drawn inputs                   *)
(***************************************************************************)
SignedBytes == {SENTINEL, -128, -24, 0, 127}
ShortSeqs == UNION { [1..n -> SignedBytes] : n \in 0..MaxLen }
\* a payload long enough for mmnn to need its high byte; it holds sentinels
LongBytes == [i \in 1..MaxLong |-> ((i * 7) % 256) - 128]

Payloads ==
    { [commandMode |-> m, orderedBytes |-> o] : m \in {1, 2, 3, 255}, o \in ShortSeqs }
    \cup { [commandMode |-> 1, orderedBytes |-> LongBytes] }

\* no element of HugeBytes is the sentinel: datas is one byte longer
HugeBytes == [i \in 1..MaxHuge |-> (i * 7) % 128]

PayloadInputs ==
    { [stage |-> "payload", cmd |-> p, ack_flg |-> a, point_tag |-> t] :
        p \in Payloads, a \in {0, 1, 255}, t \in {1, 2, 255} }
    \cup { [stage |-> "payload", cmd |-> [commandMode |-> 1, orderedBytes |-> HugeBytes],
            ack_flg |-> 1, point_tag |-> 2] }

ByteParams == {1, 50, 255}
WordParams == {0, 255, 1000, 65280}
Args(sig) ==
    { a \in [1..Len(sig) -> ByteParams \cup WordParams] :
        \A i \in 1..Len(sig) :
            a[i] \in IF sig[i] = "b" THEN ByteParams ELSE WordParams }

CallInputs ==
    UNION { { [stage |-> "call", builder |-> b, args |-> a] : a \in Args(Signature[b]) } :
            b \in DOMAIN Signature }

\* assembleRoutedBuffer on a drawn payload, with its intermediate results
AssemblePayload ==
    /\ asm.stage = "payload"
    /\ asm' = [stage |-> "assembled", cmd |-> asm.cmd, ack_flg |-> asm.ack_flg,
               point_tag |-> asm.point_tag,
               datas |-> buildDatas(asm.cmd),
               frame |-> assembleUsbFrameFromCommand(asm.cmd, asm.ack_flg),
               routed |-> assembleRoutedBuffer(asm.cmd, asm.ack_flg, asm.point_tag)]
    /\ UNCHANGED << life, ctx, running, msgQueue, mtx, wpc, cur, todo, inflight, attempts,
                    snap, head, bottom, nextId, lastDeq, run, live, workload, wfp >>

\* a catalogue builder called with drawn parameters
CatalogueBuild ==
    /\ asm.stage = "call"
    /\ asm' = [stage |-> "built", builder |-> asm.builder, args |-> asm.args,
               routed |-> Catalogue(asm)]
    /\ UNCHANGED << life, ctx, running, msgQueue, mtx, wpc, cur, todo, inflight, attempts,
                    snap, head, bottom, nextId, lastDeq, run, live, workload, wfp >>

\* send_packet: the built buffer goes to sendToPoint, and the worker's switch
\* decides the sendBufferTo calls for it
SendBuilt ==
    /\ asm.stage = "built"
    /\ asm' = [stage |-> "sent", builder |-> asm.builder, args |-> asm.args,
               routed |-> asm.routed, calls |-> Dispatch(sendToPoint(asm.routed))]
    /\ UNCHANGED << life, ctx, running, msgQueue, mtx, wpc, cur, todo, inflight, attempts,
                    snap, head, bottom, nextId, lastDeq, run, live, workload, wfp >>

\* the assembler of test-mcu.cpp on the payload already assembled
TestMcuAssemble ==
    /\ asm.stage = "assembled"
    /\ asm' = [stage |-> "compared", cmd |-> asm.cmd, ack_flg |-> asm.ack_flg,
               frame |-> asm.frame,
               mcu |-> testMcu_buildUsbFrame(
                           testMcu_buildDatas(asm.cmd.commandMode, asm.cmd.orderedBytes),
                           asm.ack_flg)]
    /\ UNCHANGED << life, ctx, running, msgQueue, mtx, wpc, cur, todo, inflight, attempts,
                    snap, head, bottom, nextId, lastDeq, run, live, workload, wfp >>

\* buildHandNudge with the parameters of a buildArmRelativeAngle call:
\* (part, speed, action, angle) as (whichHand, speed, direction, angle)
HandNudge ==
    /\ asm.stage = "built"
    /\ asm.builder = "arm-relative"
    /\ asm' = [stage |-> "nudged", args |-> asm.args, routed |-> asm.routed,
               nudge |-> buildHandNudge(asm.args[1], asm.args[3], asm.args[4],
                                        asm.args[2])]
    /\ UNCHANGED << life, ctx, running, msgQueue, mtx, wpc, cur, todo, inflight, attempts,
                    snap, head, bottom, nextId, lastDeq, run, live, workload, wfp >>

FrameNext ==
    \/ AssemblePayload
    \/ CatalogueBuild
    \/ SendBuilt
    \/ TestMcuAssemble
    \/ HandNudge

FrameSpec ==
    InitOf({[calls |-> {}, sends |-> 0]}, PayloadInputs \cup CallInputs)
    /\ [][FrameNext]_vars

\* the steps of the worker thread outside libusb_bulk_transfer
WorkerRuns ==
    \/ WorkerLoopTest
    \/ WorkerLock
    \/ WorkerPred
    \/ WorkerBlock
    \/ WorkerCheck
    \/ WorkerPop
    \/ WorkerSend
    \/ WorkerNext

CallerRuns == \E c \in Callers : CallerReturn(c)

\* scheduling: a thread that can run does run; a bulk transfer has no timeout
\* (usb-send.cpp:157) and may never return
\* the behaviours in which the callers repeat one send
BurstInit == Init /\ Cardinality(workload.calls) = 1

StallSpec == BurstInit /\ [][Next]_vars /\ WF_vars(WorkerRuns) /\ WF_vars(CallerRuns)

DrainSpec == InitWith(DrainWorkloads) /\ [][DrainNext]_vars

\* the manager under the fan-out burst and the degenerate buffers
EdgeSpec == InitWith(EdgeWorkloads) /\ [][Next]_vars

\* scheduling when the device answers: every bulk transfer returns
LiveSpec == StallSpec /\ WF_vars(WorkerTransferReturn)

(***************************************************************************)
(* Properties                                                              *)
(***************************************************************************)
\* the worker has made every sendBufferTo call for cur
Handled == wpc = "send" /\ todo = << >> /\ cur # NoMsg
\* cur is a sendToPoint buffer long enough to carry a frame and a tag
IsPoint(m) == m.what = WHAT_SEND_TO_POINT /\ Len(m.data) >= 2
TagOf(m) == m.data[Len(m.data)]
FrameOf(m) == SubSeq(m.data, 1, Len(m.data) - 1)
Eps(calls) == [i \in 1..Len(calls) |-> calls[i].ep]
Other(ep) == IF ep = "head" THEN "bottom" ELSE "head"
IsOpen(dev) == dev.handle # 0
InSeq(seq) == { seq[i] : i \in 1..Len(seq) }

\* C1: FIFO delivery. Messages leave the queue in the order of their enqueue:
\* the queue holds exactly the messages enqueued after the one dequeued last,
\* oldest first, and every transfer in progress and every completed attempt
\* belongs to the message dequeued last, so all attempts for a message are
\* over before the next message is dequeued.
C1_FifoDelivery ==
    /\ \A i \in 1..Len(msgQueue) : msgQueue[i].id = lastDeq + i
    /\ nextId = lastDeq + Len(msgQueue)
    /\ cur # NoMsg => cur.id = lastDeq
    /\ \A t \in inflight : t.msg = lastDeq /\ cur.id = lastDeq
    /\ (attempts # << >> \/ todo # << >>) => cur.id = lastDeq

C1_Witness ==
    /\ Len(msgQueue) >= 2
    /\ lastDeq >= 2
    /\ \E t \in inflight : t.msg = lastDeq

\* C2: shutdown always completes. Once the destructor has set the stop signal
\* and called notify_all, the worker is not suspended in cv.wait (nothing would
\* wake it again, and join would never return).
C2_ShutdownCompletes == life = "join" => wpc # "wait"

\* C3: single writer. At most one bulk transfer is in progress, and the worker
\* thread makes it, inside libusb_bulk_transfer.
C3_SingleWriter ==
    /\ Cardinality(inflight) <= 1
    /\ \A t \in inflight : t.by = WorkerThread /\ wpc = "xfer"

C3_Witness ==
    /\ mtx.kind = "caller"
    /\ \E t \in inflight : t.by = WorkerThread
    /\ msgQueue # << >>

\* C4: a sendToPoint buffer of at least two bytes with tag 0x01 gets one send
\* attempt, on the head, and none on the bottom; with tag 0x02 one on the
\* bottom and none on the head.
C4_SingleTargetRouting ==
    (cur # NoMsg /\ IsPoint(cur) /\ TagOf(cur) \in {1, 2}) =>
        LET target == IF TagOf(cur) = 1 THEN "head" ELSE "bottom"
        IN  /\ Eps(attempts) \o Eps(todo) = << target >>
            /\ \A t \in inflight : t.ep = target
            /\ Dev(Other(target)) = snap[Other(target)]

C4_Witness ==
    /\ Handled /\ IsPoint(cur) /\ TagOf(cur) = 2
    /\ Len(attempts) = 1
    /\ attempts[1].ep = "bottom"
    /\ attempts[1].result = "ok"

\* C5: a sendToPoint buffer with tag 0x03 gets exactly two send attempts, the
\* head's and the bottom's, both with the frame bytes (the buffer without its
\* tag); the head attempt leaves the bottom Endpoint Set as it was and the
\* bottom attempt leaves the head Endpoint Set as the head attempt left it.
C5_FanOut ==
    (Handled /\ IsPoint(cur) /\ TagOf(cur) = 3) =>
        /\ Len(attempts) = 2
        /\ attempts[1].ep = "head"
        /\ attempts[2].ep = "bottom"
        /\ attempts[1].buf = FrameOf(cur)
        /\ attempts[2].buf = FrameOf(cur)
        /\ attempts[1].before = snap.head
        /\ attempts[2].before = snap.bottom
        /\ head = attempts[1].after
        /\ bottom = attempts[2].after

C5_Witness ==
    /\ Handled /\ IsPoint(cur) /\ TagOf(cur) = 3
    /\ Len(attempts) = 2
    /\ attempts[1].result = "failed"
    /\ attempts[2].result = "ok"
    /\ head.failCount = 1
    /\ bottom.failCount = 0

\* C6: a sendToPoint buffer whose tag is none of 0x01, 0x02, 0x03 leads to no
\* sendBufferTo call (no resolution, no transfer), leaves both Endpoint Sets as
\* they were, and the worker can go on to the next message.
C6_MalformedTag ==
    (cur # NoMsg /\ IsPoint(cur) /\ TagOf(cur) \notin {1, 2, 3}) =>
        /\ todo = << >>
        /\ attempts = << >>
        /\ inflight = {}
        /\ head = snap.head
        /\ bottom = snap.bottom
        /\ ENABLED WorkerNext

C6_Witness ==
    /\ cur # NoMsg /\ IsPoint(cur) /\ TagOf(cur) \notin {1, 2, 3}
    /\ head.failCount > 0
    /\ msgQueue # << >>

\* C7: for the payloads sent, the bytes handed to libusb_bulk_transfer for
\* assembleRoutedBuffer(cmd, ack, tag), tag in 1..3, passed to sendToPoint are
\* exactly assembleUsbFrameFromCommand(cmd, ack): only the tag is removed.
SentPayloads == { [cmd |-> HeadCentreCmd, ack |-> 1], [cmd |-> SentinelCmd, ack |-> 0] }

C7_TagRoundTrip ==
    \A p \in SentPayloads, tag \in {1, 2, 3} :
        (cur.what = WHAT_SEND_TO_POINT
         /\ cur.data = assembleRoutedBuffer(p.cmd, p.ack, tag)) =>
            /\ \A t \in inflight : t.buf = assembleUsbFrameFromCommand(p.cmd, p.ack)
            /\ \A a \in InSeq(attempts) : a.buf = assembleUsbFrameFromCommand(p.cmd, p.ack)

C7_Witness ==
    /\ cur.what = WHAT_SEND_TO_POINT
    /\ cur.data = assembleRoutedBuffer(SentinelCmd, 0, 3)
    /\ \E t \in inflight :
         t.ep = "bottom" /\ t.buf = assembleUsbFrameFromCommand(SentinelCmd, 0)

\* C8: a failed transfer runs the close-and-reopen cycle exactly when it is the
\* 10th (20th, ...) failed transfer on its endpoint since the last successful
\* one; the cycle is then run once (one close of the handle, one resolution)
\* within the handling of that transfer, so before the next attempt; any other
\* failed transfer closes and opens nothing.
C8_ReconnectThreshold ==
    \A a \in InSeq(attempts) :
        a.result = "failed" =>
            IF run[a.ep] % 10 = 0
            THEN /\ a.evEnd.cycles = 1
                 /\ a.evEnd.closes = 1
                 /\ a.evEnd.resolves = 1
            ELSE a.evEnd = NoEvents /\ IsOpen(a.after)

C8_Witness ==
    \E a \in InSeq(attempts) :
        /\ a.result = "failed"
        /\ run[a.ep] = 10
        /\ a.evEnd.cycles = 1
        /\ IsOpen(a.after)

\* C9: a successful transfer leaves the failure counter at 0 and reconnects
\* nothing; a close-and-reopen cycle is run only by a failed transfer that is
\* at least the 10th since the last successful transfer on its endpoint.
C9_SuccessResets ==
    \A a \in InSeq(attempts) :
        /\ a.result = "ok" =>
              /\ a.after.failCount = 0
              /\ run[a.ep] = 0
              /\ a.evEnd = NoEvents
        /\ (a.evBegin.cycles > 0 \/ a.evEnd.cycles > 0) =>
              /\ a.result = "failed"
              /\ run[a.ep] >= 10

C9_Witness ==
    \E a \in InSeq(attempts) :
        /\ a.result = "ok"
        /\ a.mid.failCount = 9
        /\ a.after.failCount = 0

\* C10: the endpoint state machine. In every step and for each endpoint: a
\* failed transfer below the threshold leaves the endpoint Open with the same
\* handle, addresses and interface; an Open endpoint is closed only by the
\* threshold cycle or by the destructor; a Closed endpoint becomes Open only in
\* a sendBufferTo whose resolution opened a device.
NewAttemptOn(e) ==
    /\ Len(attempts') = Len(attempts) + 1
    /\ attempts'[Len(attempts')].ep = e
NewTransferOn(e) == \E t \in inflight' \ inflight : t.ep = e
SameDevice(d1, d2) ==
    /\ d1.handle = d2.handle
    /\ d1.outEp = d2.outEp
    /\ d1.inEp = d2.inEp
    /\ d1.iface = d2.iface
ShutdownStep == life = "close" /\ life' = "dead"
ThresholdStep(e) ==
    /\ NewAttemptOn(e)
    /\ LET a == attempts'[Len(attempts')]
       IN  /\ a.result = "failed"
           /\ Dev(e).failCount = 9
           /\ a.evEnd.closes = 1
           /\ a.evEnd.resolves = 1
           /\ IsOpen(a.after) => a.evEnd.opens >= 1 /\ a.after.failCount = 0
EndpointStep(e) ==
    /\ (NewAttemptOn(e) /\ attempts'[Len(attempts')].result = "failed"
          /\ Dev(e).failCount + 1 < 10)
          => /\ IsOpen(Dev(e)')
             /\ SameDevice(Dev(e), Dev(e)')
             /\ attempts'[Len(attempts')].evEnd = NoEvents
    /\ (IsOpen(Dev(e)) /\ ~SameDevice(Dev(e), Dev(e)'))
          => ShutdownStep \/ ThresholdStep(e)
    /\ (NewAttemptOn(e) /\ IsOpen(attempts'[Len(attempts')].before))
          => /\ attempts'[Len(attempts')].evBegin = NoEvents
             /\ attempts'[Len(attempts')].mid = attempts'[Len(attempts')].before
    /\ (IsOpen(Dev(e)) /\ NewAttemptOn(e)
          /\ attempts'[Len(attempts')].evEnd # NoEvents) => ThresholdStep(e)
    /\ (~IsOpen(Dev(e)) /\ IsOpen(Dev(e)'))
          => \E t \in inflight' \ inflight :
                t.ep = e /\ t.ev.resolves = 1 /\ t.ev.opens >= 1 /\ t.ev.cycles = 0
    /\ Dev(e)' # Dev(e) => ShutdownStep \/ NewAttemptOn(e) \/ NewTransferOn(e)

C10_EndpointStateMachine == [][\A e \in Endpoints : EndpointStep(e)]_vars

C10_Witness ==
    \E a \in InSeq(attempts) :
        /\ a.result = "failed"
        /\ a.mid.failCount = 9
        /\ a.evEnd.closes = 1
        /\ IsOpen(a.after)


\* C11: a send to an endpoint with no open handle whose resolution finds no
\* device or no bulk OUT interface leaves the endpoint Closed, makes no bulk
\* transfer for the buffer, and leaves failCount one greater than it was
\* before the send.
C11_ResolutionError ==
    \A a \in InSeq(attempts) :
        a.result = "dropped" =>
            /\ ~IsOpen(a.after)
            /\ \A t \in inflight : t.ep # a.ep
            /\ a.after.failCount = a.before.failCount + 1

\* C12: a dropped send is not retried synchronously. The handling of one
\* buffer for a Closed endpoint whose resolution fails runs openDevice exactly
\* once, no reconnect cycle, and nothing after it; and one message leads to at
\* most one sendBufferTo call per endpoint, so a second resolution for the
\* endpoint belongs to a later message.
C12_NoSynchronousRetry ==
    /\ \A a \in InSeq(attempts) :
          a.result = "dropped" =>
              /\ a.evBegin.resolves = 1
              /\ a.evBegin.cycles = 0
              /\ a.evEnd = NoEvents
    /\ \A i, j \in 1..Len(attempts) : attempts[i].ep = attempts[j].ep => i = j

C12_Witness ==
    /\ Handled
    /\ \E a \in InSeq(attempts) :
         /\ a.result = "dropped"
         /\ a.before.failCount = 1
         /\ a.evBegin.resolves = 1

\* C13: at-most-once delivery. For the message being handled, each endpoint
\* has at most one sendBufferTo call, made or still to make; a transfer in
\* progress is the call at the head of todo; and no message dequeued so far is
\* on the queue again, whatever the result of its attempts.
C13_AtMostOnce ==
    /\ \A e \in Endpoints :
          Cardinality({ i \in 1..Len(attempts) : attempts[i].ep = e })
            + Cardinality({ i \in 1..Len(todo) : todo[i].ep = e }) <= 1
    /\ \A t \in inflight :
          /\ todo # << >>
          /\ t.ep = Head(todo).ep
          /\ t.buf = Head(todo).buf
          /\ t.msg = cur.id
    /\ \A i \in 1..Len(msgQueue) : msgQueue[i].id > lastDeq
    /\ cur # NoMsg => cur.id = lastDeq

C13_Witness ==
    /\ Handled
    /\ Len(attempts) = 1
    /\ attempts[1].result = "failed"
    /\ attempts[1].evEnd.cycles = 1
    /\ IsOpen(attempts[1].after)
    /\ msgQueue # << >>

\* C14: shutdown does not cut a transfer short. While a bulk transfer is in
\* progress its endpoint is open, the USB context exists, the destructor has
\* not passed its join, and the transfer can return; the destructor closes the
\* endpoints and the context only after the worker has exited.
C14_NoCutTransfer ==
    /\ \A t \in inflight :
          /\ IsOpen(Dev(t.ep))
          /\ ctx
          /\ life \in {"alive", "notify", "join"}
          /\ ENABLED WorkerTransferReturn
    /\ life \in {"close", "dead"} => wpc = "exit"

C14_Witness ==
    /\ life = "join"
    /\ ~running
    /\ \E t \in inflight : t.by = WorkerThread /\ IsOpen(Dev(t.ep))

\* C15: once the destructor has set the stop signal, no step removes a message
\* from the send queue and no step starts a bulk transfer or a sendBufferTo
\* call.
C15_StopPreventsDequeue ==
    [][~running /\ life # "new" =>
          /\ Len(msgQueue') >= Len(msgQueue)
          /\ lastDeq' = lastDeq
          /\ inflight' \subseteq inflight
          /\ Len(attempts') > Len(attempts) => inflight' # inflight]_vars

\* C16: sends are non-blocking. The worker holds mtx in no state in which it
\* resolves a device or has a bulk transfer in progress, and whoever holds mtx
\* releases it, also when a transfer never returns: a send operation gets the
\* lock, pushes, signals and returns without waiting for a transfer.
C16_SendsNonBlocking ==
    /\ []((inflight # {} \/ wpc \in {"send", "xfer"}) => mtx # WorkerThread)
    /\ [](mtx.kind = "caller" => ENABLED CallerReturn(mtx.id))
    /\ (mtx # NoThread) ~> (mtx = NoThread)

C16_Witness ==
    /\ wpc = "xfer"
    /\ mtx = NoThread
    /\ lastDeq = 1
    /\ nextId >= 2
    /\ \E t \in inflight : t.msg = 1

\* C17: no lost wake-up on send. The worker is never suspended in cv.wait
\* while the queue is non-empty, and, when every transfer returns, each message
\* pushed is dequeued unless the stop signal is set first.
C17_NoLostWakeup ==
    /\ [](wpc = "wait" => msgQueue = << >>)
    /\ \A k \in 1..MaxBurst : (nextId >= k) ~> (lastDeq >= k \/ ~running)

C17_Witness ==
    /\ wpc = "wake"
    /\ running
    /\ Len(msgQueue) = 2
    /\ mtx.kind = "caller"

\* C18: drain wait. waitForPendingSends returns only having observed the
\* queue empty under the lock: every message enqueued before the call has been
\* dequeued by then (its transfer may still be in progress); until it returns
\* its caller is blocked, inside no send operation.
C18_DrainWait ==
    /\ wfp.pc = "done" =>
          /\ wfp.left = 0
          /\ wfp.deq >= wfp.upto
          /\ lastDeq >= wfp.upto
          /\ \A i \in 1..Len(msgQueue) : msgQueue[i].id > wfp.upto
    /\ wfp.pc \in {"wait", "wake", "done"} => mtx # CallerThread(wfp.c)

C18_Witness ==
    /\ wfp.pc = "done"
    /\ wfp.slept
    /\ wfp.upto >= 2
    /\ \E t \in inflight : t.msg = wfp.upto

\* C19: Endpoint Sets need no lock. The worker is inside sendBufferTo and the
\* destructor inside its closeDevice calls in no common state; the destructor
\* touches the Endpoint Sets only after the worker has exited; every bulk
\* transfer is the worker's; and every step that changes an Endpoint Set or
\* opens or closes a handle is a step of the worker while it is alive, and of
\* the destructor afterwards, never of a send operation.
WorkerTouches == wpc = "xfer" \/ (wpc = "send" /\ todo # << >>)
DtorTouches == life = "close"
WorkerAlive == wpc \notin {"none", "exit"}
EndpointsChange == head' # head \/ bottom' # bottom \/ live' # live
WorkerStep ==
    /\ wpc \in {"send", "xfer"}
    /\ life' = life
    /\ mtx' = mtx
    /\ msgQueue' = msgQueue
    /\ nextId' = nextId

C19_EndpointsNeedNoLock ==
    /\ [](~(WorkerTouches /\ DtorTouches))
    /\ [](DtorTouches => ~WorkerAlive)
    /\ [](\A t \in inflight : t.by = WorkerThread)
    /\ [][EndpointsChange =>
            IF WorkerAlive THEN WorkerStep ELSE DtorTouches /\ life' = "dead"]_vars

C19_Witness ==
    /\ DtorTouches
    /\ wpc = "exit"
    /\ IsOpen(head)
    /\ IsOpen(bottom)

\* C20: construction failure is fatal. When libusb_init fails the constructor
\* throws: no worker, running false, no context, both endpoints Closed, and
\* nothing is ever enqueued, dequeued, opened or transmitted afterwards;
\* otherwise construction leaves a running worker, the context and both
\* endpoints Closed.
C20_ConstructionFailure ==
    /\ [](life = "failed" =>
            /\ wpc = "none"
            /\ ~running
            /\ ~ctx
            /\ head = ClosedEndpoint
            /\ bottom = ClosedEndpoint
            /\ inflight = {}
            /\ msgQueue = << >>
            /\ nextId = 0
            /\ lastDeq = 0
            /\ \A e \in Endpoints : live[e] = 0)
    /\ [][life = "failed" => life' = "failed"]_vars
    /\ [][(life = "new" /\ life' # "new") =>
            \/ life' = "failed"
            \/ /\ life' = "alive"
               /\ running'
               /\ ctx'
               /\ wpc' = "loop"
               /\ head' = ClosedEndpoint
               /\ bottom' = ClosedEndpoint]_vars

C20_Witness ==
    /\ life = "failed"
    /\ wpc = "none"
    /\ ~running

(***************************************************************************)
(* Properties of the frame assembler.  Offsets in the claims count from 0, *)
(* positions in a sequence from 1.                                         *)
(***************************************************************************)
Assembled == asm.stage = "assembled"
\* the bytes of frame at offsets from..to
Bytes(frame, from, to) == SubSeq(frame, from + 1, to + 1)
\* the datas of a frame: what lies between offset 21 and the checksum
DatasOf(frame) == Bytes(frame, 21, Len(frame) - 2)
BigEndian2(b) == b[1] * 256 + b[2]
BigEndian4(b) == ((b[1] * 256 + b[2]) * 256 + b[3]) * 256 + b[4]
RECURSIVE TotalOf(_, _, _)
TotalOf(b, from, to) ==
    IF from > to THEN 0
    ELSE IF from = to THEN b[from]
    ELSE TotalOf(b, from, (from + to) \div 2) + TotalOf(b, (from + to) \div 2 + 1, to)
Total(b) == TotalOf(b, 1, Len(b))
\* commandMode followed by orderedBytes as signed bytes, and what is left of
\* that list without the elements equal to -1, as bytes 0..255
SignedOf(byte) == IF byte > 127 THEN byte - 256 ELSE byte
ByteOf(signed) == (signed + 256) % 256
ListOf(cmd) == << SignedOf(cmd.commandMode) >> \o cmd.orderedBytes
Kept(list) ==
    LET left == SelectSeq(list, LAMBDA x : x # -1)
    IN  [i \in 1..Len(left) |-> ByteOf(left[i])]

\* C21: the frame of a payload is 21 + N + 1 bytes long, N the number of
\* elements of commandMode, orderedBytes that are not -1; the routed buffer is
\* one byte longer, for every tag.
C21_FrameLength ==
    Assembled =>
        LET list == ListOf(asm.cmd)
            N == Len(SelectSeq(list, LAMBDA x : x # -1))
        IN  /\ Len(asm.frame) = 21 + N + 1
            /\ Len(asm.routed) = Len(asm.frame) + 1

C21_Witness ==
    /\ Assembled
    /\ asm.cmd.orderedBytes = << 0, SENTINEL, 127 >>
    /\ asm.point_tag = 255
    /\ Len(asm.frame) = 25

\* C22: in every frame, offsets 4..7 hold len(datas) + 6 and offsets 19..20
\* hold len(datas) + 1, big-endian, datas being the bytes of that frame from
\* offset 21 to the byte before the checksum, which are the datas built.
C22_LengthFields ==
    Assembled =>
        LET datas == DatasOf(asm.frame)
        IN  /\ datas = asm.datas
            /\ BigEndian4(Bytes(asm.frame, 4, 7)) = Len(datas) + 6
            /\ BigEndian2(Bytes(asm.frame, 19, 20)) = Len(datas) + 1

\* C23: a frame is A4 03, 00 00, content_len in 4 bytes big-endian, ack_flg,
\* seven zero bytes, FF A5, ack_flg, mmnn in 2 bytes big-endian, datas, and the
\* checksum; ack_flg at offsets 8 and 18 is the value passed in.  What the
\* fields count is C22; here mmnn is what its two bytes can hold.
C23_FrameLayout ==
    Assembled =>
        LET f == asm.frame
            n == Len(asm.datas)
        IN  /\ Len(f) = 21 + n + 1
            /\ Bytes(f, 0, 3) = << 164, 3, 0, 0 >>
            /\ BigEndian4(Bytes(f, 4, 7)) = n + 6
            /\ f[8 + 1] = asm.ack_flg
            /\ Bytes(f, 9, 15) = << 0, 0, 0, 0, 0, 0, 0 >>
            /\ Bytes(f, 16, 17) = << 255, 165 >>
            /\ f[18 + 1] = asm.ack_flg
            /\ BigEndian2(Bytes(f, 19, 20)) = (n + 1) % 65536
            /\ Bytes(f, 21, 21 + n - 1) = asm.datas
            /\ asm.datas = Kept(ListOf(asm.cmd))
            /\ \A i \in 1..Len(f) : f[i] \in 0..255

C23_Witness ==
    /\ Assembled
    /\ asm.ack_flg = 255
    /\ asm.cmd.commandMode = 3
    /\ asm.cmd.orderedBytes = << -24, 0, -128 >>

\* C24: the last byte of a frame is (0xFF + 0xA5 + ack_flg + mmnn + the sum of
\* the datas bytes) mod 256, with mmnn = len(datas) + 1 added as one number.
C24_Checksum ==
    Assembled =>
        asm.frame[Len(asm.frame)] =
            (255 + 165 + asm.ack_flg + (Len(asm.datas) + 1) + Total(asm.datas)) % 256

C24_Witness ==
    /\ Assembled
    /\ Len(asm.datas) + 1 > 256
    /\ (Len(asm.datas) + 1) % 256 # 0
    /\ asm.ack_flg = 1

\* C25: datas is commandMode followed by orderedBytes without the elements
\* equal to -1 (0xFF), commandMode included, the others in order and value;
\* a list without -1 is returned unchanged, so building datas again from a
\* payload made of datas gives datas.
C25_PayloadFiltering ==
    Assembled =>
        LET list == ListOf(asm.cmd)
            datas == asm.datas
        IN  /\ datas = Kept(list)
            /\ (\A i \in 1..Len(list) : list[i] # -1) =>
                  datas = [i \in 1..Len(list) |-> ByteOf(list[i])]
            /\ datas # << >> =>
                  buildDatas([commandMode |-> Head(datas),
                              orderedBytes |-> [i \in 1..(Len(datas) - 1) |->
                                                   SignedOf(datas[i + 1])]]) = datas

C25_Witness ==
    /\ Assembled
    /\ asm.cmd.commandMode = 255
    /\ asm.cmd.orderedBytes = << SENTINEL, -128, SENTINEL >>
    /\ asm.datas = << 128 >>

(***************************************************************************)
(* Properties of the command catalogue                                     *)
(***************************************************************************)
Built == asm.stage \in {"built", "sent"}
Sent == asm.stage = "sent"
BuiltFrame == SubSeq(asm.routed, 1, Len(asm.routed) - 1)
BuiltTag == asm.routed[Len(asm.routed)]
BuiltDatas == DatasOf(BuiltFrame)
WheelBuilders == {"wheel-no-angle", "wheel-relative", "wheel-distance", "wheel-timed"}
ArmBuilders == {"arm-no-angle", "arm-relative", "arm-absolute"}
HeadBuilders ==
    {"head-no-angle", "head-relative", "head-absolute", "head-locate-absolute",
     "head-locate-relative", "head-centre"}
\* the bytes a call's parameters put on the wire: one for a single-byte
\* parameter, low and high for a 16-bit one
WireBytes(call) ==
    UNION { IF Signature[call.builder][i] = "b"
            THEN { call.args[i] % 256 }
            ELSE { call.args[i] % 256, (call.args[i] \div 256) % 256 } :
            i \in 1..Len(call.args) }
\* the same builder called with every parameter 1
PlainCall(builder) ==
    [builder |-> builder, args |-> [i \in 1..Len(Signature[builder]) |-> 1]]
PlainDatas(builder) ==
    LET routed == Catalogue(PlainCall(builder))
    IN  DatasOf(SubSeq(routed, 1, Len(routed) - 1))

\* C26: the datas of a builder's frame carries every parameter byte, and its
\* length depends on the builder alone, not on the parameter values.
C26_FieldEncoding ==
    Built =>
        /\ Len(BuiltDatas) = Len(PlainDatas(asm.builder))
        /\ \A b \in WireBytes(asm) : \E i \in 1..Len(BuiltDatas) : BuiltDatas[i] = b

\* C27: a wheel builder gives commandMode 0x01 and tag 0x02, an arm builder
\* 0x03 and 0x02, a head builder 0x02 and 0x01; passed to sendToPoint, a wheel
\* or arm buffer is submitted to the bottom endpoint only and a head buffer to
\* the head endpoint only.
C27_FamilyRouting ==
    Built =>
        /\ asm.builder \in WheelBuilders => BuiltDatas[1] = 1 /\ BuiltTag = 2
        /\ asm.builder \in ArmBuilders => BuiltDatas[1] = 3 /\ BuiltTag = 2
        /\ asm.builder \in HeadBuilders => BuiltDatas[1] = 2 /\ BuiltTag = 1
        /\ Sent =>
              asm.calls = << Call(IF asm.builder \in HeadBuilders THEN "head" ELSE "bottom",
                                  BuiltFrame) >>

C27_Witness ==
    /\ Sent
    /\ asm.builder = "arm-relative"
    /\ Eps(asm.calls) = << "bottom" >>

\* C28: the second datas byte of a builder's frame is the sub-mode of its
\* action.
C28_SubModeTable ==
    Built =>
        BuiltDatas[2] =
            CASE asm.builder = "wheel-no-angle" -> 1
              [] asm.builder = "wheel-relative" -> 2
              [] asm.builder = "wheel-timed" -> 16
              [] asm.builder = "wheel-distance" -> 17
              [] asm.builder = "arm-no-angle" -> 1
              [] asm.builder = "arm-relative" -> 2
              [] asm.builder = "arm-absolute" -> 3
              [] asm.builder = "head-no-angle" -> 1
              [] asm.builder = "head-relative" -> 2
              [] asm.builder = "head-absolute" -> 3
              [] asm.builder = "head-centre" -> 32
              [] asm.builder = "head-locate-absolute" -> 33
              [] asm.builder = "head-locate-relative" -> 34

C28_Witness ==
    /\ Built
    /\ asm.builder = "wheel-timed"
    /\ asm.args = << 255, 255, 255 >>
    /\ BuiltDatas[2] = 16

\* C29: buildWheelDistance with action 1, speed 50 and distance 1000 gives
\* datas 01 11 01 32 E8 03, content_len 12, mmnn 7, a frame of 28 bytes and the
\* tag 0x02 after it.
C29_WheelDistanceScenario ==
    (Built /\ asm.builder = "wheel-distance" /\ asm.args = << 1, 50, 1000 >>) =>
        /\ BuiltDatas = << 1, 17, 1, 50, 232, 3 >>
        /\ BigEndian4(Bytes(BuiltFrame, 4, 7)) = 12
        /\ BigEndian2(Bytes(BuiltFrame, 19, 20)) = 7
        /\ Len(BuiltFrame) = 28
        /\ Len(asm.routed) = 29
        /\ BuiltTag = 2

C29_Witness ==
    /\ asm.stage = "built"
    /\ asm.builder = "wheel-distance"
    /\ asm.args = << 1, 50, 1000 >>
    /\ Len(asm.routed) = 29

\* C30: buildHeadCentreLock gives datas 02 20 01, content_len 9, mmnn 4 and the
\* tag 0x01 after the frame; sent, the frame goes to the head endpoint and to
\* no other.
C30_HeadCentreScenario ==
    (Built /\ asm.builder = "head-centre") =>
        /\ BuiltDatas = << 2, 32, 1 >>
        /\ BigEndian4(Bytes(BuiltFrame, 4, 7)) = 9
        /\ BigEndian2(Bytes(BuiltFrame, 19, 20)) = 4
        /\ BuiltTag = 1
        /\ Sent => /\ Eps(asm.calls) = << "head" >>
                   /\ asm.calls[1].buf = BuiltFrame

C30_Witness ==
    /\ Sent
    /\ asm.builder = "head-centre"
    /\ Len(asm.calls) = 1

\* C31: for every part, speed and angle, buildArmAbsoluteAngle gives datas
\* 03 03 part speed 02 and the low and the high byte of angle.
C31_ArmAbsolutePayload ==
    (Built /\ asm.builder = "arm-absolute") =>
        BuiltDatas = << 3, 3, asm.args[1], asm.args[2], 2,
                        asm.args[3] % 256, (asm.args[3] \div 256) % 256 >>

(***************************************************************************)
(* Properties of the Endpoint Sets over the life of the manager            *)
(***************************************************************************)
\* the worker is handling a sendBufferTo call for endpoint e with a buffer
\* that is not empty
HandlingFor(e) ==
    /\ wpc \in {"send", "xfer"}
    /\ todo # << >>
    /\ Head(todo).ep = e
    /\ Head(todo).buf # << >>
\* the worker is between two message handlings
BetweenHandlings == wpc \notin {"send", "xfer"} \/ todo = << >>

\* C32: the constructor leaves both endpoints Closed with no handle open, and
\* afterwards an endpoint's record and its open handles change only while the
\* worker handles a non-empty buffer for that very endpoint (or in the
\* destructor): no resolution runs for it before, and none for the other one.
C32_LazyOpening ==
    [][ /\ (life = "new" /\ life' = "alive") =>
              /\ head' = ClosedEndpoint /\ bottom' = ClosedEndpoint
              /\ \A e \in Endpoints : live'[e] = 0
        /\ \A e \in Endpoints :
              /\ (Dev(e)' # Dev(e) \/ live'[e] # live[e]) => ShutdownStep \/ HandlingFor(e)
              /\ (NewAttemptOn(e) /\ attempts'[Len(attempts')].evBegin # NoEvents)
                    => HandlingFor(e)
              /\ NewTransferOn(e) => HandlingFor(e) ]_vars

C32_Witness ==
    /\ IsOpen(head)
    /\ bottom = ClosedEndpoint
    /\ live = [e \in Endpoints |-> IF e = "head" THEN 1 ELSE 0]
    /\ Handled
    /\ cur.what = WHAT_SEND_TO_HEAD

\* C33: when a Closed endpoint becomes Open, it does so in the worker's
\* handling of a buffer for it, with failCount 0, and the bulk transfer of that
\* same buffer of the message being handled is submitted in the same step.
C33_RecoveryFromClosed ==
    [][ \A e \in Endpoints :
          (~IsOpen(Dev(e)) /\ IsOpen(Dev(e)')) =>
              /\ wpc = "send" /\ wpc' = "xfer"
              /\ Dev(e)'.failCount = 0
              /\ \E t \in inflight' \ inflight :
                    /\ t.by = WorkerThread
                    /\ t.ep = e
                    /\ t.msg = cur.id
                    /\ t.buf = Head(todo).buf
                    /\ t.ev.resolves = 1 ]_vars

\* a transfer submitted by the send that opened the endpoint, after an earlier
\* send to the same endpoint was dropped for lack of a device
C33_Witness ==
    /\ wpc = "xfer"
    /\ cur.id >= 2
    /\ \E t \in inflight :
          /\ t.by = WorkerThread
          /\ ~IsOpen(t.before)
          /\ t.before.failCount = 1
          /\ IsOpen(Dev(t.ep))

\* C34: between two message handlings each failCount is within 0..9, and
\* the step that closes or opens an endpoint, and the reconnect cycle, leave
\* failCount at 0.
C34_FailCountBound ==
    [][ \A e \in Endpoints :
          /\ BetweenHandlings' => Dev(e)'.failCount \in 0..9
          /\ IsOpen(Dev(e)') # IsOpen(Dev(e)) => Dev(e)'.failCount = 0
          /\ (NewAttemptOn(e) /\ attempts'[Len(attempts')].evEnd.cycles = 1)
                => Dev(e)'.failCount = 0 ]_vars

C34_Witness ==
    /\ wpc = "loop"
    /\ bottom.failCount = 9
    /\ IsOpen(bottom)

\* C35: between two message handlings each Endpoint Set is fully Closed (no
\* handle, both addresses 0, interface -1) or fully Open (a handle, a bulk OUT
\* address that is not 0, an interface number of at least 0).
FullyClosed(dev) == dev.handle = 0 /\ dev.outEp = 0 /\ dev.inEp = 0 /\ dev.iface = -1
FullyOpen(dev) == dev.handle # 0 /\ dev.outEp # 0 /\ dev.iface >= 0
C35_RecordConsistency ==
    BetweenHandlings =>
        \A e \in Endpoints : FullyClosed(Dev(e)) \/ FullyOpen(Dev(e))

C35_Witness ==
    /\ wpc = "loop"
    /\ FullyOpen(head) /\ head.inEp # 0 /\ head.iface = 1
    /\ FullyOpen(bottom) /\ bottom.inEp = 0
    /\ lastDeq >= 2

\* C36: an endpoint never has more than one libusb handle open, the handle
\* open is the one its Endpoint Set records (every other handle a resolution
\* opened is closed when the resolution returns), a recorded handle is closed
\* once, and after the destructor no handle is open.
C36_NoHandleLeak ==
    /\ \A e \in Endpoints : live[e] = IF IsOpen(Dev(e)) THEN 1 ELSE 0
    /\ \A a \in InSeq(attempts) :
          /\ a.evBegin.closes = (IF IsOpen(a.before) /\ a.evBegin.resolves > 0 THEN 1 ELSE 0)
          /\ a.evEnd.closes = (IF IsOpen(a.mid) /\ a.evEnd.cycles > 0 THEN 1 ELSE 0)
          /\ a.evBegin.opens - a.evBegin.discards \in {0, 1}
          /\ a.evEnd.opens - a.evEnd.discards \in {0, 1}
    /\ life = "dead" => \A e \in Endpoints : live[e] = 0 /\ ~IsOpen(Dev(e))

\* a resolution that opened two devices, closed the first and kept the second
C36_Witness ==
    \E a \in InSeq(attempts) :
        /\ a.evBegin.opens = 2
        /\ a.evBegin.discards = 1
        /\ IsOpen(a.mid)
        /\ live[a.ep] = 1

\* C37: a sendToPoint buffer of fewer than two bytes and an empty buffer given
\* to sendToHead or sendToBottom lead to no resolution and no transfer and
\* leave both Endpoint Sets, failCount included, and the open handles as they
\* were when the message was dequeued.
Degenerate(m) ==
    \/ m.what = WHAT_SEND_TO_POINT /\ Len(m.data) < 2
    \/ m.what \in {WHAT_SEND_TO_HEAD, WHAT_SEND_TO_BOTTOM} /\ m.data = << >>
C37_DegenerateBuffers ==
    (cur # NoMsg /\ Degenerate(cur)) =>
        /\ wpc # "xfer"
        /\ \A t \in inflight : t.msg # cur.id
        /\ \A a \in InSeq(attempts) :
              /\ a.result = "empty"
              /\ a.evBegin = NoEvents /\ a.evEnd = NoEvents
              /\ a.after = a.before
        /\ head = snap.head /\ bottom = snap.bottom
        /\ \A e \in Endpoints : live[e] = IF IsOpen(snap[e]) THEN 1 ELSE 0

\* the one-byte buffer 03 handled while the head is Open after a failure
C37_Witness ==
    /\ Handled
    /\ cur.what = WHAT_SEND_TO_POINT /\ cur.data = << 3 >>
    /\ IsOpen(head) /\ head.failCount = 1
    /\ attempts = << >>

\* C38: in the handling of a tag-0x03 buffer the head attempt is complete
\* before the bottom transfer or attempt begins, and once the head attempt is
\* complete, whatever its result, the bottom attempt is the next thing the
\* worker does and it is made before the handling ends.
WorkerTransfers == { t \in inflight : t.by = WorkerThread }
C38_FanOutOrder ==
    (cur # NoMsg /\ IsPoint(cur) /\ TagOf(cur) = 3) =>
        /\ Cardinality(WorkerTransfers) <= 1
        /\ \A t \in WorkerTransfers :
              /\ t.ep = "head" => attempts = << >>
              /\ t.ep = "bottom" => Len(attempts) = 1
        /\ Len(attempts) >= 1 =>
              attempts[1].ep = "head"
        /\ Len(attempts) = 1 =>
              /\ todo = << Call("bottom", FrameOf(cur)) >>
              /\ wpc = "send" => ENABLED WorkerSend
        /\ Len(attempts) >= 2 => attempts[2].ep = "bottom"
        /\ Handled => Len(attempts) = 2

\* the head attempt failed for the 10th time and ran the reconnect cycle; the
\* bottom attempt followed
C38_Witness ==
    /\ Handled /\ IsPoint(cur) /\ TagOf(cur) = 3
    /\ Len(attempts) = 2
    /\ attempts[1].result = "failed"
    /\ attempts[1].evEnd.cycles = 1
    /\ attempts[2].ep = "bottom"

\* C39: the buffer of a sendToHead (sendToBottom) message is what every
\* sendBufferTo call and transfer for it carries, whole, last byte included,
\* and they are for the head (bottom) endpoint only, the other Endpoint Set
\* staying as it was; for a sendToPoint message they carry the buffer without
\* its last byte.
IsDirect(m) == m.what \in {WHAT_SEND_TO_HEAD, WHAT_SEND_TO_BOTTOM}
TargetOf(m) == IF m.what = WHAT_SEND_TO_HEAD THEN "head" ELSE "bottom"
CallsFor(m) ==
    InSeq(todo) \cup { Call(a.ep, a.buf) : a \in InSeq(attempts) }
        \cup { Call(t.ep, t.buf) : t \in { u \in WorkerTransfers : u.msg = m.id } }
C39_DirectSendsUntouched ==
    /\ (cur # NoMsg /\ IsDirect(cur)) =>
          /\ CallsFor(cur) \subseteq { Call(TargetOf(cur), cur.data) }
          /\ Len(todo) + Len(attempts) = 1
          /\ Dev(Other(TargetOf(cur))) = snap[Other(TargetOf(cur))]
    /\ (cur # NoMsg /\ IsPoint(cur)) =>
          \A c \in CallsFor(cur) : c.buf = FrameOf(cur)

\* a buffer that ends in 02, given to sendToHead, in transfer to the head
C39_Witness ==
    /\ wpc = "xfer"
    /\ cur.what = WHAT_SEND_TO_HEAD
    /\ cur.data[Len(cur.data)] = 2
    /\ \E t \in WorkerTransfers : t.ep = "head" /\ t.buf = cur.data
    /\ bottom = ClosedEndpoint

\* C40: for every commandMode, orderedBytes and ack, buildDatas and
\* buildUsbFrame of test-mcu.cpp give the bytes that those of
\* packet-assembler.cpp give, and buildHandNudge(hand, direction, angle,
\* speed) gives the routed buffer of buildArmRelativeAngle(hand, speed,
\* direction, angle).
C40_AssemblersAgree ==
    /\ asm.stage = "compared" => asm.mcu = asm.frame
    /\ asm.stage = "nudged" => asm.nudge = asm.routed

\* both built from an angle whose low byte is 0xFF
C40_Witness ==
    /\ asm.stage = "nudged"
    /\ asm.args = << 1, 50, 1, 255 >>
    /\ asm.nudge = asm.routed
    /\ Len(asm.nudge) = 29

=============================================================================
